---- MODULE Spec2Model ----
(***************************************************************************)
(* Proof-Carrying Orders of 0-hummingbot (src/src/pco): the signed record, *)
(* its canonical signing message, the builders, the verifier.              *)
(*                                                                         *)
(* Bytes are naturals 0..255.  A u64 and an f64 are held as their eight    *)
(* base-256 digits, most significant first (TLC integers are 32 bits       *)
(* wide); to_le_bytes reverses the digits, and u64 arithmetic is done on   *)
(* the digits with carry and borrow, so it wraps at 2^64 as the code does. *)
(***************************************************************************)
EXTENDS Integers, Sequences, FiniteSets, TLC

VARIABLES
    signer_now,       \* SystemTime::now() of the process that builds PCOs
    verifier_now,     \* SystemTime::now() of the process that verifies
    overflow_checks,  \* build profile: TRUE = arithmetic overflow panics
    builder,          \* PcoBuilder, or Consumed once build took it by value
    batch,            \* BatchPcoBuilder
    pcos,             \* the ProofCarryingOrders produced so far, in order
    origin,           \* per PCO of pcos: how it came to be
    changed,          \* what was done to pcos[1] after it was signed
    verifier,         \* PcoVerifier
    result,           \* outcome of the last verification call
    calls,            \* what the builders were asked to record (history)
    linker,           \* GraphLinker
    link_result,      \* outcome of the last GraphLinker call
    composer,         \* GraphComposer
    compose_result,   \* outcome of the last GraphComposer call
    composed_graphs,  \* the ComposedGraphs the caller of compose has kept
    audit_log,        \* AuditLog
    ws                \* the task spawned by spawn_websocket and its channels

vars == <<signer_now, verifier_now, overflow_checks, builder, batch, pcos,
          origin, changed, verifier, result, calls, linker, link_result,
          composer, compose_result, composed_graphs, audit_log, ws>>

\* the state of the graph composition system (src/src/composer)
graphVars == <<linker, link_result, composer, compose_result, composed_graphs>>

\* the audit log and the WebSocket task
auxVars == <<audit_log, ws>>

(* ------------------------------ bytes --------------------------------- *)

HashLen == 32
SigLen == 64
U64Len == 8

Fill(b) == [i \in 1..HashLen |-> b]

RECURSIVE Reverse(_)
Reverse(s) == IF s = <<>> THEN <<>> ELSE Reverse(Tail(s)) \o <<Head(s)>>

RECURSIVE Digits(_, _)
\* the k-digit base-256 numeral of n, most significant digit first
Digits(n, k) == IF k = 0 THEN <<>> ELSE Digits(n \div 256, k - 1) \o <<n % 256>>

U64(n) == Digits(n, U64Len)

\* u64::to_le_bytes / f64::to_le_bytes
ToLeBytes(x) == Reverse(x)

RECURSIVE AddCarry(_, _, _, _)
\* digits i..1 of a + b + carry, as <<digits, carry out>>
AddCarry(a, b, i, c) ==
    IF i = 0 THEN <<<<>>, c>>
    ELSE LET s == a[i] + b[i] + c
             r == AddCarry(a, b, i - 1, s \div 256)
         IN  <<r[1] \o <<s % 256>>, r[2]>>

\* wrapping a + b, and whether it overflowed
AddU64(a, b) == AddCarry(a, b, U64Len, 0)[1]
AddOverflows(a, b) == AddCarry(a, b, U64Len, 0)[2] = 1

RECURSIVE SubBorrow(_, _, _, _)
SubBorrow(a, b, i, c) ==
    IF i = 0 THEN <<<<>>, c>>
    ELSE LET d == a[i] - b[i] - c
             r == SubBorrow(a, b, i - 1, IF d < 0 THEN 1 ELSE 0)
         IN  <<r[1] \o <<(d + 256) % 256>>, r[2]>>

\* wrapping a - b, and whether it underflowed
SubU64(a, b) == SubBorrow(a, b, U64Len, 0)[1]
SubOverflows(a, b) == SubBorrow(a, b, U64Len, 0)[2] = 1

RECURSIVE GtFrom(_, _, _)
GtFrom(a, b, i) ==
    IF i > Len(a) THEN FALSE
    ELSE IF a[i] # b[i] THEN a[i] > b[i]
    ELSE GtFrom(a, b, i + 1)

\* a > b on u64
GtU64(a, b) == GtFrom(a, b, 1)

(* --------------------------- Order encoding --------------------------- *)

None == <<>>
Some(v) == <<v>>

SideByte(side) == IF side = "Buy" THEN 0 ELSE 1

TypeByte(t) ==
    CASE t = "Market" -> 0
      [] t = "Limit" -> 1
      [] t = "StopLoss" -> 2
      [] t = "TakeProfit" -> 3

\* an Option<f64>: presence flag, then the value when present
OptionBytes(opt) == IF opt = None THEN <<0>> ELSE <<1>> \o ToLeBytes(opt[1])

\* Order::to_bytes
OrderToBytes(o) ==
    o.symbol \o <<0>>
        \o <<SideByte(o.side)>>
        \o <<TypeByte(o.order_type)>>
        \o ToLeBytes(o.quantity)
        \o OptionBytes(o.price)
        \o OptionBytes(o.stop_price)
        \o o.time_in_force \o <<0>>
        \o o.client_order_id

RECURSIVE Concat(_)
\* the entries of a trace one after the other
Concat(trace) == IF trace = <<>> THEN <<>> ELSE Head(trace) \o Concat(Tail(trace))

\* build_message_static that leaves the execution trace out of the message
BuildMessageStaticNoTrace(order, strategy_hash, input_hash, execution_trace, timestamp, agent_pubkey) ==
    OrderToBytes(order)
        \o strategy_hash
        \o input_hash
        \o ToLeBytes(timestamp)
        \o agent_pubkey

\* ProofCarryingOrder::build_message_static
BuildMessageStatic(order, strategy_hash, input_hash, execution_trace, timestamp, agent_pubkey) ==
    OrderToBytes(order)
        \o strategy_hash
        \o input_hash
        \o Concat(execution_trace)
        \o ToLeBytes(timestamp)
        \o agent_pubkey

\* build_message that passes the two hashes in the wrong order
BuildMessageSwapped(p) ==
    BuildMessageStatic(p.order, p.input_hash, p.strategy_hash, p.execution_trace,
                       p.timestamp, p.agent_pubkey)

\* ProofCarryingOrder::build_message
BuildMessage(p) ==
    BuildMessageStatic(p.order, p.strategy_hash, p.input_hash, p.execution_trace,
                       p.timestamp, p.agent_pubkey)

(* ------------------------- Ed25519 and SHA-256 ------------------------ *)
\* The two primitives are taken as ideal.  A signature is the pair (key,
\* message) it was made from, plus the byte-wise difference `delta` between
\* its 64 bytes and the bytes the signer produced: it verifies under a
\* public key exactly when the key matches, the message is the signed one
\* and no byte was altered.

NoDelta == [i \in 1..SigLen |-> 0]

\* SigningKey::sign
Sign(sk, message) == [signer |-> sk, msg |-> message, delta |-> NoDelta]

\* SigningKey::verifying_key().to_bytes()
VerifyingKeyBytes(sk) == Fill(100 + 2 * sk)

RECURSIVE SumBytes(_)
\* the sum of the bytes of s, by halves to keep the evaluation shallow
SumBytes(s) ==
    IF s = <<>> THEN 0
    ELSE IF Len(s) = 1 THEN s[1]
    ELSE LET half == Len(s) \div 2
         IN  SumBytes(SubSeq(s, 1, half)) + SumBytes(SubSeq(s, half + 1, Len(s)))

RECURSIVE WeightedSum(_, _)
\* the sum of the bytes of s, the i-th weighted k + i - 1, modulo 2^16
WeightedSum(s, k) ==
    IF s = <<>> THEN 0
    ELSE IF Len(s) = 1 THEN (k * s[1]) % 65536
    ELSE LET half == Len(s) \div 2
         IN  (WeightedSum(SubSeq(s, 1, half), k)
                + WeightedSum(SubSeq(s, half + 1, Len(s)), k + half)) % 65536

\* VerifyingKey::from_bytes succeeds: the bytes decode to a curve point.
\* A parity test stands for the curve equation; every honest key passes.
OnCurve(pk) == SumBytes(pk) % 2 = 0

\* VerifyingKey::verify
Ed25519Verify(pk, message, sig) ==
    /\ VerifyingKeyBytes(sig.signer) = pk
    /\ sig.msg = message
    /\ sig.delta = NoDelta

\* Sha256 digest of a byte string: a digest built from the length and two
\* checksums of the input, which tells apart the inputs hashed here
Sha256(m) ==
    LET s0 == SumBytes(m) % 256
        s1 == WeightedSum(m, 1)
    IN  [i \in 1..HashLen |->
            CASE i = 1 -> Len(m) % 256
              [] i = 2 -> s0
              [] i = 3 -> s1 % 256
              [] i = 4 -> s1 \div 256
              [] OTHER -> (s1 + i * s0 + Len(m)) % 256]

(* ------------------------- ProofCarryingOrder ------------------------- *)

\* ProofCarryingOrder::new, `now` being the clock it reads
NewPco(order, strategy_hash, input_hash, execution_trace, sk, now) ==
    LET agent_pubkey == VerifyingKeyBytes(sk)
        message == BuildMessageStatic(order, strategy_hash, input_hash,
                                      execution_trace, now, agent_pubkey)
    IN  [order |-> order,
         strategy_hash |-> strategy_hash,
         input_hash |-> input_hash,
         execution_trace |-> execution_trace,
         timestamp |-> now,
         agent_pubkey |-> agent_pubkey,
         signature |-> Sign(sk, message)]

\* ProofCarryingOrder::verify_signature
VerifySignature(p) ==
    IF ~OnCurve(p.agent_pubkey) THEN "Err(InvalidPublicKey)"
    ELSE IF Ed25519Verify(p.agent_pubkey, BuildMessage(p), p.signature)
         THEN "Ok(true)"
         ELSE "Err(InvalidSignature)"

\* MarketDataInput::hash
MarketDataHash(md) ==
    Sha256(ToLeBytes(md.timestamp)
             \o md.symbol
             \o ToLeBytes(md.best_bid)
             \o ToLeBytes(md.best_ask)
             \o ToLeBytes(md.bid_size)
             \o ToLeBytes(md.ask_size)
             \o ToLeBytes(md.mid_price)
             \o OptionBytes(md.volatility)
             \o OptionBytes(md.position))

\* PcoBuilder::hash_node_name
HashNodeName(name) == Sha256(name)

(* ------------------------------ builders ------------------------------ *)

Consumed == [moved |-> TRUE]

Ok(v) == [ok |-> TRUE, value |-> v]
Err(e) == [ok |-> FALSE, error |-> e]

\* PcoBuilder::new
PcoBuilderNew(sk) == [signing_key |-> sk, execution_trace |-> <<>>, node_names |-> <<>>]

\* record_node putting the node in front
BuilderRecordNodeFront(b, node_name, node_hash) ==
    [b EXCEPT !.execution_trace = <<node_hash>> \o @,
              !.node_names = <<node_name>> \o @]

\* PcoBuilder::record_node
BuilderRecordNode(b, node_name, node_hash) ==
    [b EXCEPT !.execution_trace = Append(@, node_hash),
              !.node_names = Append(@, node_name)]

\* PcoBuilder::record_node_by_name
BuilderRecordNodeByName(b, node_name) ==
    BuilderRecordNode(b, node_name, HashNodeName(node_name))

\* PcoBuilder::clear
BuilderClear(b) == [b EXCEPT !.execution_trace = <<>>, !.node_names = <<>>]

\* PcoBuilder::build_with_input_hash
BuilderBuildWithInputHash(b, order, strategy_hash, input_hash, now) ==
    IF b.execution_trace = <<>>
    THEN Err("InvalidExecutionTrace")
    ELSE Ok(NewPco(order, strategy_hash, input_hash, b.execution_trace,
                   b.signing_key, now))

\* build without the test for an empty trace
BuilderBuildUnchecked(b, order, strategy_hash, market_data, now) ==
    Ok(NewPco(order, strategy_hash, MarketDataHash(market_data),
              b.execution_trace, b.signing_key, now))

\* PcoBuilder::build
BuilderBuild(b, order, strategy_hash, market_data, now) ==
    IF b.execution_trace = <<>>
    THEN Err("InvalidExecutionTrace")
    ELSE Ok(NewPco(order, strategy_hash, MarketDataHash(market_data),
                   b.execution_trace, b.signing_key, now))

\* BatchPcoBuilder::new
BatchPcoBuilderNew(sk, strategy_hash) ==
    [signing_key |-> sk, strategy_hash |-> strategy_hash, base_trace |-> <<>>]

\* BatchPcoBuilder::record_shared_node
BatchRecordSharedNode(bb, node_name) ==
    [bb EXCEPT !.base_trace = Append(@, HashNodeName(node_name))]

RECURSIVE HashNames(_)
HashNames(names) ==
    IF names = <<>> THEN <<>> ELSE <<HashNodeName(Head(names))>> \o HashNames(Tail(names))

\* build_for_order putting the suffix before the shared nodes
BatchBuildForOrderSuffixFirst(bb, order, market_data, additional_nodes, now) ==
    LET trace == HashNames(additional_nodes) \o bb.base_trace
    IN  IF trace = <<>>
        THEN Err("InvalidExecutionTrace")
        ELSE Ok(NewPco(order, bb.strategy_hash, MarketDataHash(market_data),
                       trace, bb.signing_key, now))

\* BatchPcoBuilder::build_for_order
BatchBuildForOrder(bb, order, market_data, additional_nodes, now) ==
    LET trace == bb.base_trace \o HashNames(additional_nodes)
    IN  IF trace = <<>>
        THEN Err("InvalidExecutionTrace")
        ELSE Ok(NewPco(order, bb.strategy_hash, MarketDataHash(market_data),
                       trace, bb.signing_key, now))

(* ------------------------- values of the model ------------------------ *)

MaxTrace == 2

SigningKeys == {1, 2}

\* strings, as their UTF-8 bytes
StrBTC == <<66, 84, 67>>
StrGTC == <<71, 84, 67>>
StrX == <<120>>
NodeA == <<97>>
NodeB == <<98>>

\* f64 values, as the digits of their IEEE-754 bit pattern
F64Hundredth == <<63, 132, 122, 225, 71, 174, 20, 123>>   \* 0.01
F64FiftyK == <<64, 232, 106, 0, 0, 0, 0, 0>>              \* 50000.0
F64One == <<63, 240, 0, 0, 0, 0, 0, 0>>                   \* 1.0

\* 32-byte values used as hashes; the second is made of ASCII '1' only
HashOne == Fill(1)
HashAscii == Fill(49)

\* the clock both processes start from: 1706745600, as a u64
Epoch == <<0, 0, 0, 0, 101, 186, 223, 0>>

LimitOrder(coid) ==
    [symbol |-> StrBTC, side |-> "Buy", order_type |-> "Limit",
     quantity |-> F64Hundredth, price |-> Some(F64FiftyK), stop_price |-> None,
     time_in_force |-> StrGTC, client_order_id |-> coid]

StopOrder ==
    [symbol |-> StrBTC, side |-> "Sell", order_type |-> "StopLoss",
     quantity |-> F64One, price |-> None, stop_price |-> Some(F64FiftyK),
     time_in_force |-> <<>>, client_order_id |-> <<>>]

\* client order ids: a short one, and one of 33 ASCII characters
ClientOrderIds == {StrX, StrX \o HashAscii}

Orders == {LimitOrder(c) : c \in ClientOrderIds} \cup {StopOrder}

MarketData(mid) ==
    [timestamp |-> Epoch, symbol |-> StrBTC, best_bid |-> F64FiftyK,
     best_ask |-> F64FiftyK, bid_size |-> F64One, ask_size |-> F64One,
     mid_price |-> mid, volatility |-> Some(F64Hundredth), position |-> None]

Snapshots == {MarketData(F64FiftyK), MarketData(F64One)}

RECURSIVE SeqsUpTo(_, _)
\* the sequences over S of length at most n
SeqsUpTo(S, n) ==
    IF n = 0 THEN {<<>>}
    ELSE LET shorter == SeqsUpTo(S, n - 1)
         IN  shorter \cup {Append(q, x) : q \in {r \in shorter : Len(r) = n - 1}, x \in S}

NoResult == [op |-> "none"]

\* AuditLog::new
AuditLogNew == [entries |-> <<>>]

\* spawn_websocket has not been called
NotSpawned == [pc |-> "not spawned"]

\* nothing has been done with the audit log and no WebSocket task runs
AuxIdle == audit_log = AuditLogNew /\ ws = NotSpawned

\* nothing recorded yet: the hashes given to the PcoBuilder since it was
\* created or cleared, the names given to record_shared_node, and the
\* suffix given to the last build_for_order
NoCalls == [nodes |-> <<>>, shared |-> <<>>, suffix |-> <<>>]

(* ------------------------------ operations ---------------------------- *)

Untouched == [kind |-> "none"]

\* ProofCarryingOrder::new, called directly
PcoNew(order, strategy_hash, input_hash, execution_trace, sk) ==
    /\ pcos' = Append(pcos, NewPco(order, strategy_hash, input_hash,
                                   execution_trace, sk, signer_now))
    /\ origin' = Append(origin, "new")
    /\ result' = NoResult
    /\ UNCHANGED <<signer_now, verifier_now, overflow_checks, builder, batch,
                   changed, verifier,
                   calls, auxVars, graphVars>>

\* PcoBuilder::record_node
RecordNode(node_name, node_hash) ==
    /\ builder # Consumed
    /\ Len(builder.execution_trace) < MaxTrace
    /\ builder' = BuilderRecordNode(builder, node_name, node_hash)
    /\ calls' = [calls EXCEPT !.nodes = Append(@, node_hash)]
    /\ UNCHANGED <<signer_now, verifier_now, overflow_checks, batch, pcos,
                   origin, changed, verifier, result,
                   auxVars, graphVars>>

\* PcoBuilder::record_node_by_name
RecordNodeByName(node_name) ==
    /\ builder # Consumed
    /\ Len(builder.execution_trace) < MaxTrace
    /\ builder' = BuilderRecordNodeByName(builder, node_name)
    /\ calls' = [calls EXCEPT !.nodes = Append(@, HashNodeName(node_name))]
    /\ UNCHANGED <<signer_now, verifier_now, overflow_checks, batch, pcos,
                   origin, changed, verifier, result,
                   auxVars, graphVars>>

\* PcoBuilder::clear
Clear ==
    /\ builder # Consumed
    /\ builder' = BuilderClear(builder)
    /\ calls' = [calls EXCEPT !.nodes = <<>>]
    /\ UNCHANGED <<signer_now, verifier_now, overflow_checks, batch, pcos,
                   origin, changed, verifier, result,
                   auxVars, graphVars>>

\* what a build call leaves behind: the PCO appended, or the error reported
Built(r, how) ==
    /\ IF r.ok
       THEN /\ pcos' = Append(pcos, r.value)
            /\ origin' = Append(origin, how)
       ELSE UNCHANGED <<pcos, origin>>
    /\ result' = [op |-> how, value |-> IF r.ok THEN "Ok" ELSE r.error]

\* PcoBuilder::build; it takes the builder by value
Build(order, strategy_hash, market_data) ==
    /\ builder # Consumed
    /\ Built(BuilderBuild(builder, order, strategy_hash, market_data, signer_now),
             "build")
    /\ builder' = Consumed
    /\ UNCHANGED <<signer_now, verifier_now, overflow_checks, batch, changed,
                   verifier,
                   calls, auxVars, graphVars>>

\* PcoBuilder::build_with_input_hash; it takes the builder by value
BuildWithInputHash(order, strategy_hash, input_hash) ==
    /\ builder # Consumed
    /\ Built(BuilderBuildWithInputHash(builder, order, strategy_hash, input_hash,
                                       signer_now),
             "build_with_input_hash")
    /\ builder' = Consumed
    /\ UNCHANGED <<signer_now, verifier_now, overflow_checks, batch, changed,
                   verifier,
                   calls, auxVars, graphVars>>

\* BatchPcoBuilder::record_shared_node
RecordSharedNode(node_name) ==
    /\ Len(batch.base_trace) < MaxTrace
    /\ batch' = BatchRecordSharedNode(batch, node_name)
    /\ calls' = [calls EXCEPT !.shared = Append(@, node_name)]
    /\ UNCHANGED <<signer_now, verifier_now, overflow_checks, builder, pcos,
                   origin, changed, verifier, result,
                   auxVars, graphVars>>

\* BatchPcoBuilder::build_for_order
BuildForOrder(order, market_data, additional_nodes) ==
    /\ Built(BatchBuildForOrder(batch, order, market_data, additional_nodes,
                                signer_now),
             "build_for_order")
    /\ calls' = [calls EXCEPT !.suffix = additional_nodes]
    /\ UNCHANGED <<signer_now, verifier_now, overflow_checks, builder, batch,
                   changed, verifier,
                   auxVars, graphVars>>

(* ---------------- changes made to a PCO after it was signed ----------- *)

\* the byte that replaces b
OtherByte(b) == (b + 1) % 256

\* the 32-byte field f of p with one byte replaced
HashFieldVariants(p, f) ==
    {[p EXCEPT ![f][i] = OtherByte(@)] : i \in 1..HashLen}

\* the public key of p with one byte replaced, by a byte of the other or
\* of the same parity
KeyVariants(p) ==
    {[p EXCEPT !.agent_pubkey[i] = (@ + d) % 256] : i \in 1..HashLen, d \in {1, 2}}

\* the string field f of p's order with one character replaced
StringVariants(p, f) ==
    {[p EXCEPT !.order[f][i] = (@ + 1) % 128] : i \in 1..Len(p.order[f])}

\* the f64 field f of p's order with one byte replaced
NumberVariants(p, f) ==
    {[p EXCEPT !.order[f][i] = OtherByte(@)] : i \in 1..U64Len}

OptionVariants(p, f) ==
    IF p.order[f] = None THEN {}
    ELSE {[p EXCEPT !.order[f][1][i] = OtherByte(@)] : i \in 1..U64Len}

\* every PCO that differs from p in exactly one byte of one field, all
\* lengths kept
ByteVariants(p) ==
    HashFieldVariants(p, "strategy_hash")
        \cup HashFieldVariants(p, "input_hash")
        \cup KeyVariants(p)
        \cup {[p EXCEPT !.execution_trace[k][i] = OtherByte(@)] :
                k \in 1..Len(p.execution_trace), i \in 1..HashLen}
        \cup {[p EXCEPT !.timestamp[i] = OtherByte(@)] : i \in 1..U64Len}
        \cup {[p EXCEPT !.signature.delta[i] = 1] : i \in 1..SigLen}
        \cup StringVariants(p, "symbol")
        \cup StringVariants(p, "time_in_force")
        \cup StringVariants(p, "client_order_id")
        \cup {[p EXCEPT !.order.side = s] : s \in {"Buy", "Sell"} \ {p.order.side}}
        \cup {[p EXCEPT !.order.order_type = t] :
                t \in {"Market", "Limit", "StopLoss", "TakeProfit"} \ {p.order.order_type}}
        \cup NumberVariants(p, "quantity")
        \cup OptionVariants(p, "price")
        \cup OptionVariants(p, "stop_price")

\* a clone of the signed PCO has one byte overwritten (test_pco_tamper_detection)
TamperByte ==
    /\ Len(pcos) = 1
    /\ changed = Untouched
    /\ \E q \in ByteVariants(pcos[1]) : pcos' = <<q>>
    /\ changed' = [kind |-> "byte", original |-> pcos[1]]
    /\ result' = NoResult
    /\ UNCHANGED <<signer_now, verifier_now, overflow_checks, builder, batch,
                   origin, verifier,
                   calls, auxVars, graphVars>>

\* fields of the signed PCO are replaced, the signature kept
ReplaceFields(client_order_id, strategy_hash, input_hash, execution_trace) ==
    LET q == [pcos[1] EXCEPT !.order.client_order_id = client_order_id,
                             !.strategy_hash = strategy_hash,
                             !.input_hash = input_hash,
                             !.execution_trace = execution_trace]
    IN  /\ Len(pcos) = 1
        /\ changed = Untouched
        /\ q # pcos[1]
        /\ pcos' = <<q>>
        /\ changed' = [kind |-> "fields", original |-> pcos[1]]
        /\ result' = NoResult
        /\ UNCHANGED <<signer_now, verifier_now, overflow_checks, builder, batch,
                       origin, verifier,
                   calls, auxVars, graphVars>>

\* ProofCarryingOrder::verify_signature, called on pcos[1]
CheckSignature ==
    /\ Len(pcos) >= 1
    /\ result' = [op |-> "verify_signature", value |-> VerifySignature(pcos[1])]
    /\ UNCHANGED <<signer_now, verifier_now, overflow_checks, builder, batch,
                   pcos, origin, changed, verifier,
                   calls, auxVars, graphVars>>

(* ------------------------------ verifier ------------------------------ *)

DefaultMaxAge == 3600

\* PcoVerifier::new
PcoVerifierNew ==
    [known_strategies |-> {}, known_agents |-> {}, max_age_secs |-> U64(DefaultMaxAge)]

FutureTolerance == 60

Panic == [outcome |-> "panic"]
Returned(v) == [outcome |-> "returned", value |-> v]

TimestampOk == [status |-> "Ok(true)"]
TimestampInFuture ==
    [status |-> "Err(TimestampError)", message |-> "Timestamp is in the future"]
TimestampTooOld(age) ==
    [status |-> "Err(TimestampError)", message |-> "Timestamp is too old", seconds_ago |-> age]

\* ProofCarryingOrder::verify_timestamp, `now` being the clock it reads.
\* now + 60 and now - self.timestamp are u64 operations: on overflow they
\* panic when the build checks overflow, and wrap otherwise.
VerifyTimestamp(p, max_age_secs, now, checks) ==
    IF checks /\ AddOverflows(now, U64(FutureTolerance)) THEN Panic
    ELSE IF GtU64(p.timestamp, AddU64(now, U64(FutureTolerance)))
         THEN Returned(TimestampInFuture)
    ELSE IF checks /\ SubOverflows(now, p.timestamp) THEN Panic
    ELSE IF GtU64(SubU64(now, p.timestamp), max_age_secs)
         THEN Returned(TimestampTooOld(SubU64(now, p.timestamp)))
    ELSE Returned(TimestampOk)

\* PcoVerifier::with_max_age
WithMaxAgeOf(v, max_age_secs) == [v EXCEPT !.max_age_secs = max_age_secs]

\* PcoVerifier::register_strategy
RegisterStrategyIn(v, strategy_hash) ==
    [v EXCEPT !.known_strategies = @ \cup {strategy_hash}]

\* PcoVerifier::register_agent
RegisterAgentIn(v, agent_pubkey) ==
    [v EXCEPT !.known_agents = @ \cup {agent_pubkey}]

\* PcoVerifier::verify, steps 1 to 5: the entries pushed to result.errors
VerifyErrors(sig, ts, p) ==
    (IF sig = "Ok(true)" THEN <<>> ELSE <<[text |-> "Signature error", error |-> sig]>>)
        \o (IF ts.status = "Ok(true)" THEN <<>>
            ELSE <<[text |-> "Timestamp error", error |-> ts]>>)
        \o (IF p.execution_trace = <<>> THEN <<[text |-> "Execution trace is empty"]>>
            ELSE <<>>)

\* PcoVerifier::verify, steps 3 and 4: the entries pushed to result.warnings
VerifyWarnings(v, p) ==
    (IF p.strategy_hash \notin v.known_strategies /\ v.known_strategies # {}
     THEN <<"Strategy hash not in known strategies">> ELSE <<>>)
        \o (IF p.agent_pubkey \notin v.known_agents /\ v.known_agents # {}
            THEN <<"Agent public key not in known agents">> ELSE <<>>)

\* overall validity computed without the trace check
IsValidIgnoringTrace(signature_valid, timestamp_valid, trace_valid) ==
    signature_valid /\ timestamp_valid

\* PcoVerifier::verify: overall validity
IsValid(signature_valid, timestamp_valid, trace_valid) ==
    signature_valid /\ timestamp_valid /\ trace_valid

\* PcoVerifier::verify; a panic of verify_timestamp unwinds through it
VerifyPco(v, p, now, checks) ==
    LET sig == VerifySignature(p)
        tsr == VerifyTimestamp(p, v.max_age_secs, now, checks)
    IN  IF tsr.outcome = "panic" THEN Panic
        ELSE LET ts == tsr.value
                 signature_valid == sig = "Ok(true)"
                 timestamp_valid == ts.status = "Ok(true)"
                 trace_valid == p.execution_trace # <<>>
             IN  Returned(
                   [is_valid |-> IsValid(signature_valid, timestamp_valid, trace_valid),
                    signature_valid |-> signature_valid,
                    timestamp_valid |-> timestamp_valid,
                    strategy_known |-> p.strategy_hash \in v.known_strategies,
                    agent_known |-> p.agent_pubkey \in v.known_agents,
                    trace_valid |-> trace_valid,
                    trace_length |-> IF trace_valid THEN Len(p.execution_trace) ELSE 0,
                    errors |-> VerifyErrors(sig, ts, p),
                    warnings |-> VerifyWarnings(v, p)])

\* |a - b| on u64, as verify_same_execution computes it
TimeDiff(a, b) == IF GtU64(a, b) THEN SubU64(a, b) ELSE SubU64(b, a)

\* the checks without the one on the agent key
MismatchWithNoAgent(reference, p) ==
    IF p.strategy_hash # reference.strategy_hash THEN "Err(StrategyHashMismatch)"
    ELSE IF p.input_hash # reference.input_hash THEN "Err(InputHashMismatch)"
    ELSE IF GtU64(TimeDiff(p.timestamp, reference.timestamp), U64(1))
         THEN "Err(TimestampError)"
    ELSE "none"

\* verify_same_execution: the checks made on one PCO against the reference;
\* the first that fails, or "none"
MismatchWith(reference, p) ==
    IF p.strategy_hash # reference.strategy_hash THEN "Err(StrategyHashMismatch)"
    ELSE IF p.input_hash # reference.input_hash THEN "Err(InputHashMismatch)"
    ELSE IF p.agent_pubkey # reference.agent_pubkey THEN "Err(InvalidPublicKey)"
    ELSE IF GtU64(TimeDiff(p.timestamp, reference.timestamp), U64(1))
         THEN "Err(TimestampError)"
    ELSE "none"

RECURSIVE SameExecutionFrom(_, _)
\* verify_same_execution: the loop over pcos[1..], from the i-th PCO on
SameExecutionFrom(ps, i) ==
    IF i > Len(ps) THEN "Ok(true)"
    ELSE IF MismatchWith(ps[1], ps[i]) # "none" THEN MismatchWith(ps[1], ps[i])
    ELSE SameExecutionFrom(ps, i + 1)

\* PcoVerifier::verify_same_execution
VerifySameExecution(ps) ==
    IF Len(ps) < 2 THEN "Ok(true)" ELSE SameExecutionFrom(ps, 2)

\* the PCOs of pcos at the positions idx, in that order
Arranged(idx) == [i \in 1..Len(idx) |-> pcos[idx[i]]]

\* PcoVerifier::verify_same_execution, called on a slice the caller has
\* put together from the PCOs it holds
CheckSameExecution(idx) ==
    /\ result' = [op |-> "verify_same_execution",
                  value |-> VerifySameExecution(Arranged(idx)),
                  batch |-> Arranged(idx)]
    /\ UNCHANGED <<signer_now, verifier_now, overflow_checks, builder, batch,
                   pcos, origin, changed, verifier,
                   calls, auxVars, graphVars>>

\* the elements of a sequence
Range(q) == {q[i] : i \in DOMAIN q}

\* strategy_node_hashes.iter().position(|node| node == hash): the index,
\* counted from 0, of the first node equal to hash
Position(strategy_node_hashes, hash) ==
    IF hash \in Range(strategy_node_hashes)
    THEN Some((CHOOSE i \in DOMAIN strategy_node_hashes :
                  /\ strategy_node_hashes[i] = hash
                  /\ \A j \in 1..(i - 1) : strategy_node_hashes[j] # hash) - 1)
    ELSE None

RECURSIVE TraceIndices(_, _)
\* verify_execution_trace: the trace as node indices (filter_map over the
\* positions)
TraceIndices(execution_trace, strategy_node_hashes) ==
    IF execution_trace = <<>> THEN <<>>
    ELSE Position(strategy_node_hashes, Head(execution_trace))
            \o TraceIndices(Tail(execution_trace), strategy_node_hashes)

\* PcoVerifier::verify_execution_trace
VerifyExecutionTrace(p, strategy_node_hashes, valid_paths) ==
    IF \E k \in DOMAIN p.execution_trace :
           p.execution_trace[k] \notin Range(strategy_node_hashes)
    THEN [value |-> "Err(InvalidExecutionTrace)", detail |-> "Node not found in strategy"]
    ELSE IF valid_paths = <<>>
    THEN [value |-> "Ok(true)", detail |-> ""]
    ELSE IF \E i \in DOMAIN valid_paths :
                TraceIndices(p.execution_trace, strategy_node_hashes) = valid_paths[i]
    THEN [value |-> "Ok(true)", detail |-> ""]
    ELSE [value |-> "Err(InvalidExecutionTrace)",
          detail |-> "Execution trace does not match any valid strategy path"]

\* PcoVerifier::verify_execution_trace, called on the PCO at hand
CheckExecutionTrace(strategy_node_hashes, valid_paths) ==
    /\ Len(pcos) = 1
    /\ result' = [op |-> "verify_execution_trace",
                  value |-> VerifyExecutionTrace(pcos[1], strategy_node_hashes,
                                                 valid_paths).value,
                  detail |-> VerifyExecutionTrace(pcos[1], strategy_node_hashes,
                                                  valid_paths).detail,
                  strategy_node_hashes |-> strategy_node_hashes,
                  valid_paths |-> valid_paths]
    /\ UNCHANGED <<signer_now, verifier_now, overflow_checks, builder, batch,
                   pcos, origin, changed, verifier, calls, auxVars, graphVars>>

\* the clock of the signing process moves on by d seconds
TickSigner(d) ==
    /\ signer_now' = AddU64(signer_now, U64(d))
    /\ UNCHANGED <<verifier_now, overflow_checks, builder, batch, pcos, origin,
                   changed, verifier, result,
                   calls, auxVars, graphVars>>

\* the clock of the verifying process moves on by d seconds
TickVerifier(d) ==
    /\ verifier_now' = AddU64(verifier_now, U64(d))
    /\ UNCHANGED <<signer_now, overflow_checks, builder, batch, pcos, origin,
                   changed, verifier, result,
                   calls, auxVars, graphVars>>

\* PcoVerifier::with_max_age
WithMaxAge(max_age_secs) ==
    /\ verifier' = WithMaxAgeOf(verifier, max_age_secs)
    /\ UNCHANGED <<signer_now, verifier_now, overflow_checks, builder, batch,
                   pcos, origin, changed, result,
                   calls, auxVars, graphVars>>

\* PcoVerifier::register_strategy
RegisterStrategy(strategy_hash) ==
    /\ verifier' = RegisterStrategyIn(verifier, strategy_hash)
    /\ UNCHANGED <<signer_now, verifier_now, overflow_checks, builder, batch,
                   pcos, origin, changed, result,
                   calls, auxVars, graphVars>>

\* PcoVerifier::register_agent
RegisterAgent(agent_pubkey) ==
    /\ verifier' = RegisterAgentIn(verifier, agent_pubkey)
    /\ UNCHANGED <<signer_now, verifier_now, overflow_checks, builder, batch,
                   pcos, origin, changed, result,
                   calls, auxVars, graphVars>>

\* ProofCarryingOrder::verify_timestamp, called on pcos[1]
CheckTimestamp ==
    /\ Len(pcos) >= 1
    /\ result' = [op |-> "verify_timestamp",
                  value |-> VerifyTimestamp(pcos[1], verifier.max_age_secs,
                                            verifier_now, overflow_checks)]
    /\ UNCHANGED <<signer_now, verifier_now, overflow_checks, builder, batch,
                   pcos, origin, changed, verifier,
                   calls, auxVars, graphVars>>

\* PcoVerifier::verify, called on pcos[1]
Verify ==
    /\ Len(pcos) >= 1
    /\ result' = [op |-> "verify",
                  value |-> VerifyPco(verifier, pcos[1], verifier_now, overflow_checks)]
    /\ UNCHANGED <<signer_now, verifier_now, overflow_checks, builder, batch,
                   pcos, origin, changed, verifier,
                   calls, auxVars, graphVars>>

(* ----------------------------- GraphLinker ---------------------------- *)
\* Port indices are counted from 0, as in the code.  The HashMaps nodes
\* and connected_inputs are sets of entries with at most one entry per key.

\* Connection::new
ConnectionNew(from_node, from_port, to_node, to_port) ==
    [from_node |-> from_node, from_port |-> from_port,
     to_node |-> to_node, to_port |-> to_port]

\* Connection::hash_name
ConnectionHashName(name) == Sha256(name)

\* Connection::from_names
ConnectionFromNames(from_name, from_port, to_name, to_port) ==
    ConnectionNew(ConnectionHashName(from_name), from_port,
                  ConnectionHashName(to_name), to_port)

\* PortInfo
PortInfo(name, shape, required) == [name |-> name, shape |-> shape, required |-> required]

\* NodeInfo
NodeInfo(id, name, inputs, outputs) ==
    [id |-> id, name |-> name, inputs |-> inputs, outputs |-> outputs]

\* NodeBuilder::new
NodeBuilderNew(name) == [name |-> name, inputs |-> <<>>, outputs |-> <<>>]

\* NodeBuilder::with_input
WithInput(b, name, shape, required) ==
    [b EXCEPT !.inputs = Append(@, PortInfo(name, shape, required))]

\* NodeBuilder::with_scalar_input
WithScalarInput(b, name, required) == WithInput(b, name, <<1>>, required)

\* NodeBuilder::with_output
WithOutput(b, name, shape) ==
    [b EXCEPT !.outputs = Append(@, PortInfo(name, shape, FALSE))]

\* NodeBuilder::with_scalar_output
WithScalarOutput(b, name) == WithOutput(b, name, <<1>>)

\* build that hashes the length of each input port name after the node name
NodeBuilderBuildWithPorts(b) ==
    NodeInfo(Sha256(b.name \o [i \in DOMAIN b.inputs |-> Len(b.inputs[i].name)]),
             b.name, b.inputs, b.outputs)

\* NodeBuilder::build
NodeBuilderBuild(b) == NodeInfo(Sha256(b.name), b.name, b.inputs, b.outputs)

\* GraphLinker::new
GraphLinkerNew == [nodes |-> {}, connections |-> <<>>, connected_inputs |-> {}]

\* self.nodes.get(&id): the entries stored under the id, none or one
NodesGet(l, id) == {n \in l.nodes : n.id = id}

\* GraphLinker::register_node: HashMap::insert replaces the entry of the id
LinkerRegisterNode(l, node) ==
    [l EXCEPT !.nodes = (@ \ NodesGet(l, node.id)) \cup {node}]

\* GraphLinker::register_node_by_name
LinkerRegisterNodeByName(l, name, inputs, outputs) ==
    LinkerRegisterNode(l, NodeInfo(Sha256(name), name, inputs, outputs))

\* self.connected_inputs.contains_key(&(node, port))
InputConnected(l, node, port) ==
    \E entry \in l.connected_inputs : entry.key = <<node, port>>

\* a shape test that lets every pair of shapes through
ShapeMismatchNever(from_shape, to_shape) == FALSE

\* connect: the shapes of the two ports do not go together
ShapeMismatch(from_shape, to_shape) ==
    from_shape # <<>> /\ to_shape # <<>> /\ from_shape # to_shape

\* connect without the test for an input that is already connected
LinkerConnectAgain(l, connection) ==
    IF NodesGet(l, connection.from_node) = {} \/ NodesGet(l, connection.to_node) = {}
    THEN [value |-> "Err(NodeNotFound)", linker |-> l]
    ELSE LET from_node == CHOOSE n \in NodesGet(l, connection.from_node) : TRUE
             to_node == CHOOSE n \in NodesGet(l, connection.to_node) : TRUE
         IN  IF connection.from_port >= Len(from_node.outputs)
                   \/ connection.to_port >= Len(to_node.inputs)
             THEN [value |-> "Err(PortNotFound)", linker |-> l]
             ELSE [value |-> "Ok(())",
                   linker |-> [l EXCEPT !.connections = Append(@, connection)]]

\* connect that, on an input already connected, reports the error and puts
\* the new connection in the place of the old one
LinkerConnectReplacing(l, connection) ==
    IF InputConnected(l, connection.to_node, connection.to_port)
    THEN [value |-> "Err(AlreadyConnected)",
          linker |-> [l EXCEPT !.connections =
                         [i \in DOMAIN @ |->
                            IF @[i].to_node = connection.to_node
                                 /\ @[i].to_port = connection.to_port
                            THEN connection ELSE @[i]]]]
    ELSE LinkerConnectAgain(l, connection)

\* connect that lets an output port feed one input only
LinkerConnectOneReader(l, connection) ==
    IF \E i \in DOMAIN l.connections :
           /\ l.connections[i].from_node = connection.from_node
           /\ l.connections[i].from_port = connection.from_port
    THEN [value |-> "Err(AlreadyConnected)", linker |-> l]
    ELSE IF NodesGet(l, connection.from_node) = {} \/ NodesGet(l, connection.to_node) = {}
    THEN [value |-> "Err(NodeNotFound)", linker |-> l]
    ELSE LET from_node == CHOOSE n \in NodesGet(l, connection.from_node) : TRUE
             to_node == CHOOSE n \in NodesGet(l, connection.to_node) : TRUE
         IN  IF connection.from_port >= Len(from_node.outputs)
                   \/ connection.to_port >= Len(to_node.inputs)
             THEN [value |-> "Err(PortNotFound)", linker |-> l]
             ELSE IF InputConnected(l, connection.to_node, connection.to_port)
             THEN [value |-> "Err(AlreadyConnected)", linker |-> l]
             ELSE IF ShapeMismatch(from_node.outputs[connection.from_port + 1].shape,
                                   to_node.inputs[connection.to_port + 1].shape)
             THEN [value |-> "Err(ShapeMismatch)", linker |-> l]
             ELSE [value |-> "Ok(())",
                   linker |->
                      [l EXCEPT
                         !.connected_inputs =
                             @ \cup {[key |-> <<connection.to_node, connection.to_port>>,
                                      source |-> connection.from_node]},
                         !.connections = Append(@, connection)]]

\* connect that files the target node in the index of connected inputs
LinkerConnectIndexingTarget(l, connection) ==
    IF NodesGet(l, connection.from_node) = {} \/ NodesGet(l, connection.to_node) = {}
    THEN [value |-> "Err(NodeNotFound)", linker |-> l]
    ELSE LET from_node == CHOOSE n \in NodesGet(l, connection.from_node) : TRUE
             to_node == CHOOSE n \in NodesGet(l, connection.to_node) : TRUE
         IN  IF connection.from_port >= Len(from_node.outputs)
                   \/ connection.to_port >= Len(to_node.inputs)
             THEN [value |-> "Err(PortNotFound)", linker |-> l]
             ELSE IF InputConnected(l, connection.to_node, connection.to_port)
             THEN [value |-> "Err(AlreadyConnected)", linker |-> l]
             ELSE IF ShapeMismatch(from_node.outputs[connection.from_port + 1].shape,
                                   to_node.inputs[connection.to_port + 1].shape)
             THEN [value |-> "Err(ShapeMismatch)", linker |-> l]
             ELSE [value |-> "Ok(())",
                   linker |->
                      [l EXCEPT
                         !.connected_inputs =
                             @ \cup {[key |-> <<connection.to_node, connection.to_port>>,
                                      source |-> connection.to_node]},
                         !.connections = Append(@, connection)]]

\* GraphLinker::connect
LinkerConnect(l, connection) ==
    IF NodesGet(l, connection.from_node) = {}
    THEN [value |-> "Err(NodeNotFound)", linker |-> l]
    ELSE IF NodesGet(l, connection.to_node) = {}
    THEN [value |-> "Err(NodeNotFound)", linker |-> l]
    ELSE LET from_node == CHOOSE n \in NodesGet(l, connection.from_node) : TRUE
             to_node == CHOOSE n \in NodesGet(l, connection.to_node) : TRUE
         IN  IF connection.from_port >= Len(from_node.outputs)
             THEN [value |-> "Err(PortNotFound)", linker |-> l]
             ELSE IF connection.to_port >= Len(to_node.inputs)
             THEN [value |-> "Err(PortNotFound)", linker |-> l]
             ELSE IF InputConnected(l, connection.to_node, connection.to_port)
             THEN [value |-> "Err(AlreadyConnected)", linker |-> l]
             ELSE IF ShapeMismatch(from_node.outputs[connection.from_port + 1].shape,
                                   to_node.inputs[connection.to_port + 1].shape)
             THEN [value |-> "Err(ShapeMismatch)", linker |-> l]
             ELSE [value |-> "Ok(())",
                   linker |->
                      [l EXCEPT
                         !.connected_inputs =
                             {entry \in @ : entry.key
                                  # <<connection.to_node, connection.to_port>>}
                               \cup {[key |-> <<connection.to_node, connection.to_port>>,
                                      source |-> connection.from_node]},
                         !.connections = Append(@, connection)]]

\* validate without the loop over the required inputs
LinkerValidateLax(l) == "Ok(())"

\* GraphLinker::validate
LinkerValidate(l) ==
    IF \E node \in l.nodes : \E port_idx \in 0..(Len(node.inputs) - 1) :
           /\ node.inputs[port_idx + 1].required
           /\ ~InputConnected(l, node.id, port_idx)
    THEN "Err(InvalidGraph)"
    ELSE "Ok(())"

\* GraphLinker::source_of: the first connection into the port
LinkerSourceOf(l, node_id, port) ==
    IF \E i \in DOMAIN l.connections :
           l.connections[i].to_node = node_id /\ l.connections[i].to_port = port
    THEN LET i == CHOOSE i \in DOMAIN l.connections :
                     /\ l.connections[i].to_node = node_id
                     /\ l.connections[i].to_port = port
                     /\ \A j \in 1..(i - 1) :
                           ~(l.connections[j].to_node = node_id
                               /\ l.connections[j].to_port = port)
         IN  Some(<<l.connections[i].from_node, l.connections[i].from_port>>)
    ELSE None

\* GraphLinker::connections_to
LinkerConnectionsTo(l, node_id) ==
    SelectSeq(l.connections, LAMBDA c : c.to_node = node_id)

\* GraphLinker::connections_from
LinkerConnectionsFrom(l, node_id) ==
    SelectSeq(l.connections, LAMBDA c : c.from_node = node_id)

\* GraphLinker::dependents
LinkerDependents(l, node_id) ==
    LET from_here == SelectSeq(l.connections, LAMBDA c : c.from_node = node_id)
    IN  [i \in DOMAIN from_here |-> from_here[i].to_node]

\* dependencies that maps the connections into the node to their to_node
LinkerDependenciesOfItself(l, node_id) ==
    LET to_here == SelectSeq(l.connections, LAMBDA c : c.to_node = node_id)
    IN  [i \in DOMAIN to_here |-> to_here[i].to_node]

\* GraphLinker::dependencies
LinkerDependencies(l, node_id) ==
    LET to_here == SelectSeq(l.connections, LAMBDA c : c.to_node = node_id)
    IN  [i \in DOMAIN to_here |-> to_here[i].from_node]

\* the composer is left alone
ComposerIdle == UNCHANGED <<composer, compose_result, composed_graphs>>

\* the order machinery is left alone
PcoIdle ==
    UNCHANGED <<signer_now, verifier_now, overflow_checks, builder, batch, pcos,
                origin, changed, verifier, result, calls, auxVars>>

\* GraphLinker::register_node
RegisterNode(node) ==
    /\ linker' = LinkerRegisterNode(linker, node)
    /\ link_result' = [op |-> "register_node", node |-> node]
    /\ ComposerIdle /\ PcoIdle

\* GraphLinker::register_node_by_name
RegisterNodeByName(name, inputs, outputs) ==
    /\ linker' = LinkerRegisterNodeByName(linker, name, inputs, outputs)
    /\ link_result' = [op |-> "register_node",
                       node |-> NodeInfo(Sha256(name), name, inputs, outputs)]
    /\ ComposerIdle /\ PcoIdle

\* GraphLinker::connect
Connect(connection) ==
    /\ linker' = LinkerConnect(linker, connection).linker
    /\ link_result' = [op |-> "connect", connection |-> connection,
                       value |-> LinkerConnect(linker, connection).value]
    /\ ComposerIdle /\ PcoIdle

\* GraphLinker::connect_by_name
ConnectByName(from_name, from_port, to_name, to_port) ==
    LET connection == ConnectionFromNames(from_name, from_port, to_name, to_port)
    IN  /\ linker' = LinkerConnect(linker, connection).linker
        /\ link_result' = [op |-> "connect", connection |-> connection,
                           value |-> LinkerConnect(linker, connection).value,
                           names |-> <<from_name, to_name>>]
        /\ ComposerIdle /\ PcoIdle

\* GraphLinker::validate
Validate ==
    /\ link_result' = [op |-> "validate", value |-> LinkerValidate(linker)]
    /\ UNCHANGED linker
    /\ ComposerIdle /\ PcoIdle

\* GraphLinker::source_of
SourceOf(node_id, port) ==
    /\ link_result' = [op |-> "source_of", key |-> <<node_id, port>>,
                       source |-> LinkerSourceOf(linker, node_id, port)]
    /\ UNCHANGED linker
    /\ ComposerIdle /\ PcoIdle

\* GraphLinker::connections_to
ConnectionsTo(node_id) ==
    /\ link_result' = [op |-> "connections_to", id |-> node_id,
                       list |-> LinkerConnectionsTo(linker, node_id)]
    /\ UNCHANGED linker
    /\ ComposerIdle /\ PcoIdle

\* GraphLinker::connections_from
ConnectionsFrom(node_id) ==
    /\ link_result' = [op |-> "connections_from", id |-> node_id,
                       list |-> LinkerConnectionsFrom(linker, node_id)]
    /\ UNCHANGED linker
    /\ ComposerIdle /\ PcoIdle

\* GraphLinker::dependents
Dependents(node_id) ==
    /\ link_result' = [op |-> "dependents", id |-> node_id,
                       ids |-> LinkerDependents(linker, node_id)]
    /\ UNCHANGED linker
    /\ ComposerIdle /\ PcoIdle

\* GraphLinker::dependencies
Dependencies(node_id) ==
    /\ link_result' = [op |-> "dependencies", id |-> node_id,
                       ids |-> LinkerDependencies(linker, node_id)]
    /\ UNCHANGED linker
    /\ ComposerIdle /\ PcoIdle

(* ---------------------------- GraphComposer --------------------------- *)
\* The HashMap graphs is a set of SubgraphMetadata with at most one entry
\* per hash.

\* SubgraphMetadata
SubgraphMetadata(hash, name, inputs, outputs, description) ==
    [hash |-> hash, name |-> name, inputs |-> inputs, outputs |-> outputs,
     description |-> description]

\* SubgraphConnection
SubgraphConnection(from_graph, from_output, to_graph, to_input) ==
    [from_graph |-> from_graph, from_output |-> from_output,
     to_graph |-> to_graph, to_input |-> to_input]

\* GraphComposer::new
GraphComposerNew == [graphs |-> {}, nodes |-> <<>>, connections |-> <<>>]

\* self.graphs.get(&hash): the entries stored under the hash, none or one
GraphsGet(c, hash) == {g \in c.graphs : g.hash = hash}

\* import that stores the metadata beside what is stored under its hash
ComposerImportBeside(c, metadata) ==
    [value |-> metadata.hash,
     composer |-> [c EXCEPT !.graphs = @ \cup {metadata}]]

\* GraphComposer::import: HashMap::insert replaces the entry of the hash
ComposerImport(c, metadata) ==
    [value |-> metadata.hash,
     composer |-> [c EXCEPT !.graphs = (@ \ GraphsGet(c, metadata.hash)) \cup {metadata}]]

\* connect that looks for the input before it looks for the output
ComposerConnectInputFirst(c, from_graph, from_output, to_graph, to_input) ==
    IF GraphsGet(c, from_graph) = {} \/ GraphsGet(c, to_graph) = {}
    THEN [value |-> "Err(GraphNotFound)", composer |-> c]
    ELSE LET from_meta == CHOOSE g \in GraphsGet(c, from_graph) : TRUE
             to_meta == CHOOSE g \in GraphsGet(c, to_graph) : TRUE
         IN  IF \A i \in DOMAIN to_meta.inputs : to_meta.inputs[i] # to_input
             THEN [value |-> "Err(InputNotFound)", composer |-> c]
             ELSE IF \A i \in DOMAIN from_meta.outputs : from_meta.outputs[i] # from_output
             THEN [value |-> "Err(OutputNotFound)", composer |-> c]
             ELSE [value |-> "Ok(())",
                   composer |->
                      [c EXCEPT !.connections =
                          Append(@, SubgraphConnection(from_graph, from_output,
                                                       to_graph, to_input))]]

\* GraphComposer::connect
ComposerConnect(c, from_graph, from_output, to_graph, to_input) ==
    IF GraphsGet(c, from_graph) = {}
    THEN [value |-> "Err(GraphNotFound)", composer |-> c]
    ELSE IF GraphsGet(c, to_graph) = {}
    THEN [value |-> "Err(GraphNotFound)", composer |-> c]
    ELSE LET from_meta == CHOOSE g \in GraphsGet(c, from_graph) : TRUE
             to_meta == CHOOSE g \in GraphsGet(c, to_graph) : TRUE
         IN  IF \A i \in DOMAIN from_meta.outputs : from_meta.outputs[i] # from_output
             THEN [value |-> "Err(OutputNotFound)", composer |-> c]
             ELSE IF \A i \in DOMAIN to_meta.inputs : to_meta.inputs[i] # to_input
             THEN [value |-> "Err(InputNotFound)", composer |-> c]
             ELSE [value |-> "Ok(())",
                   composer |->
                      [c EXCEPT !.connections =
                          Append(@, SubgraphConnection(from_graph, from_output,
                                                       to_graph, to_input))]]

\* the linker is left alone
LinkerIdle == UNCHANGED <<linker, link_result>>

\* GraphComposer::new: the caller starts over with a composer of its own
NewComposer ==
    /\ composer' = GraphComposerNew
    /\ compose_result' = [op |-> "new"]
    /\ composed_graphs' = composed_graphs
    /\ LinkerIdle /\ PcoIdle

\* GraphComposer::import
Import(metadata) ==
    /\ composer' = ComposerImport(composer, metadata).composer
    /\ compose_result' = [op |-> "import", metadata |-> metadata,
                          hash |-> ComposerImport(composer, metadata).value]
    /\ composed_graphs' = composed_graphs
    /\ LinkerIdle /\ PcoIdle

\* GraphComposer::connect
ConnectGraphs(from_graph, from_output, to_graph, to_input) ==
    /\ composer' = ComposerConnect(composer, from_graph, from_output,
                                   to_graph, to_input).composer
    /\ compose_result' =
          [op |-> "connect",
           connection |-> SubgraphConnection(from_graph, from_output, to_graph, to_input),
           value |-> ComposerConnect(composer, from_graph, from_output,
                                     to_graph, to_input).value]
    /\ composed_graphs' = composed_graphs
    /\ LinkerIdle /\ PcoIdle

\* self.graphs.keys(): the hashes of the imported subgraphs
GraphKeys(c) == {g.hash : g \in c.graphs}

\* the orders in which a HashMap can hand out the keys S: the order depends
\* on the hasher state of the map and is any arrangement of S
IterationOrders(S) ==
    {q \in [1..Cardinality(S) -> S] : \A x \in S : \E i \in DOMAIN q : q[i] = x}

RECURSIVE Neighbors(_, _)
\* the adjacency list built by check_cycles and topological_order, looked
\* up at node: the to_graph of every connection leaving node, in connection
\* order, a connection made twice counted twice
Neighbors(connections, node) ==
    IF connections = <<>> THEN <<>>
    ELSE IF Head(connections).from_graph = node
         THEN <<Head(connections).to_graph>> \o Neighbors(Tail(connections), node)
         ELSE Neighbors(Tail(connections), node)

\* has_cycle that never finds a node on the recursion stack
HasCycleNever(node, connections, visited, rec_stack) ==
    [value |-> FALSE, visited |-> visited, rec_stack |-> rec_stack]

RECURSIVE HasCycle(_, _, _, _)
RECURSIVE HasCycleAmong(_, _, _, _)
\* GraphComposer::has_cycle: the answer, and the two sets as the call
\* leaves them
HasCycle(node, connections, visited, rec_stack) ==
    IF node \in rec_stack
    THEN [value |-> TRUE, visited |-> visited, rec_stack |-> rec_stack]
    ELSE IF node \in visited
    THEN [value |-> FALSE, visited |-> visited, rec_stack |-> rec_stack]
    ELSE LET r == HasCycleAmong(Neighbors(connections, node), connections,
                                visited \cup {node}, rec_stack \cup {node})
         IN  IF r.value THEN r
             ELSE [value |-> FALSE, visited |-> r.visited,
                   rec_stack |-> r.rec_stack \ {node}]

\* the loops `for neighbor in neighbors` of has_cycle and `for graph_hash
\* in self.graphs.keys()` of check_cycles: has_cycle on each node in turn,
\* leaving at the first cycle
HasCycleAmong(nodes, connections, visited, rec_stack) ==
    IF nodes = <<>>
    THEN [value |-> FALSE, visited |-> visited, rec_stack |-> rec_stack]
    ELSE LET r == HasCycle(Head(nodes), connections, visited, rec_stack)
         IN  IF r.value THEN r
             ELSE HasCycleAmong(Tail(nodes), connections, r.visited, r.rec_stack)

\* GraphComposer::check_cycles, the keys of graphs handed out in the order
\* keys
ComposerCheckCycles(c, keys) ==
    IF HasCycleAmong(keys, c.connections, {}, {}).value
    THEN "Err(CycleDetected)"
    ELSE "Ok(())"

\* the in_degree map of topological_order before Kahn's algorithm starts:
\* 0 for every imported subgraph, plus one for every connection into it
InDegree(c) ==
    [h \in GraphKeys(c) \cup {c.connections[i].to_graph : i \in DOMAIN c.connections} |->
        Cardinality({i \in DOMAIN c.connections : c.connections[i].to_graph = h})]

\* the first queue holding every entry of in_degree
ZeroInDegreeOrNot(entries, in_degree) == entries

\* in_degree.iter().filter(|(_, &deg)| deg == 0).map(|(hash, _)| *hash)
\* .collect(), the entries handed out in the order entries
ZeroInDegree(entries, in_degree) ==
    SelectSeq(entries, LAMBDA hash : in_degree[hash] = 0)

RECURSIVE ReleaseNeighbors(_, _, _)
\* the loop `for neighbor in neighbors` of topological_order: one less for
\* each neighbor, pushed on the queue when it reaches zero
ReleaseNeighbors(neighbors, queue, in_degree) ==
    IF neighbors = <<>> THEN [queue |-> queue, in_degree |-> in_degree]
    ELSE LET neighbor == Head(neighbors)
             degree == in_degree[neighbor] - 1
         IN  ReleaseNeighbors(Tail(neighbors),
                              IF degree = 0 THEN Append(queue, neighbor) ELSE queue,
                              [in_degree EXCEPT ![neighbor] = degree])

RECURSIVE Kahn(_, _, _, _)
\* the loop `while let Some(node) = queue.pop()` of topological_order:
\* Vec::pop takes the last element; order is the Vec named result
Kahn(connections, queue, in_degree, order) ==
    IF queue = <<>> THEN order
    ELSE LET node == queue[Len(queue)]
             r == ReleaseNeighbors(Neighbors(connections, node),
                                   SubSeq(queue, 1, Len(queue) - 1), in_degree)
         IN  Kahn(connections, r.queue, r.in_degree, Append(order, node))

\* GraphComposer::topological_order, the keys of graphs handed out in the
\* order keys and the entries of in_degree in the order entries
ComposerTopologicalOrder(c, keys, entries) ==
    IF ComposerCheckCycles(c, keys) # "Ok(())" THEN Err("CycleDetected")
    ELSE Ok(Kahn(c.connections, ZeroInDegree(entries, InDegree(c)), InDegree(c), <<>>))

\* "composed_graph"
StrComposedGraph == <<99, 111, 109, 112, 111, 115, 101, 100, 95, 103, 114, 97, 112, 104>>

\* [0u8; 32]
ZeroHash == Fill(0)

RECURSIVE SubgraphHashBytes(_)
\* the bytes calculate_hash feeds for the subgraphs
SubgraphHashBytes(subgraphs) ==
    IF subgraphs = <<>> THEN <<>>
    ELSE Head(subgraphs).hash \o SubgraphHashBytes(Tail(subgraphs))

RECURSIVE ConnectionBytes(_)
\* the bytes calculate_hash feeds for the connections
ConnectionBytes(connections) ==
    IF connections = <<>> THEN <<>>
    ELSE LET conn == Head(connections)
         IN  conn.from_graph \o conn.from_output \o conn.to_graph \o conn.to_input
                \o ConnectionBytes(Tail(connections))

\* the bytes ComposedGraph::calculate_hash feeds to the hasher, in order
CalculateHashInput(g) ==
    g.name \o SubgraphHashBytes(g.subgraphs) \o ConnectionBytes(g.connections)

\* ComposedGraph::calculate_hash
CalculateHash(g) == Sha256(CalculateHashInput(g))

\* ComposedGraph
ComposedGraph(name, subgraphs, connections, hash) ==
    [name |-> name, subgraphs |-> subgraphs, connections |-> connections, hash |-> hash]

\* compose that leaves the connections out of the ComposedGraph
ComposerComposeUnwired(c, keys, entries) ==
    LET order == ComposerTopologicalOrder(c, keys, entries)
    IN  IF ~order.ok THEN order
        ELSE Ok(ComposedGraph(StrComposedGraph,
                              [i \in DOMAIN order.value |->
                                  CHOOSE g \in GraphsGet(c, order.value[i]) : TRUE],
                              <<>>, ZeroHash))

\* GraphComposer::compose; self.graphs is not changed between the two
\* check_cycles calls and hands out its keys in the same order in both
ComposerCompose(c, keys, entries) ==
    IF ComposerCheckCycles(c, keys) # "Ok(())" THEN Err("CycleDetected")
    ELSE LET order == ComposerTopologicalOrder(c, keys, entries)
         IN  IF ~order.ok THEN order
             ELSE LET composed ==
                         ComposedGraph(StrComposedGraph,
                                       [i \in DOMAIN order.value |->
                                           CHOOSE g \in GraphsGet(c, order.value[i]) : TRUE],
                                       c.connections, ZeroHash)
                  IN  Ok([composed EXCEPT !.hash = CalculateHash(composed)])

\* GraphComposer::check_cycles
CheckCycles ==
    /\ \E keys \in IterationOrders(GraphKeys(composer)) :
          compose_result' = [op |-> "check_cycles",
                             value |-> ComposerCheckCycles(composer, keys)]
    /\ composer' = composer
    /\ composed_graphs' = composed_graphs
    /\ LinkerIdle /\ PcoIdle

\* GraphComposer::topological_order
TopologicalOrder ==
    /\ \E keys \in IterationOrders(GraphKeys(composer)),
          entries \in IterationOrders(DOMAIN InDegree(composer)) :
          compose_result' = [op |-> "topological_order",
                             order |-> ComposerTopologicalOrder(composer, keys, entries)]
    /\ composer' = composer
    /\ composed_graphs' = composed_graphs
    /\ LinkerIdle /\ PcoIdle

\* GraphComposer::compose; the caller keeps the ComposedGraph it is handed
\* (keep) or drops it
Compose(keep) ==
    /\ \E keys \in IterationOrders(GraphKeys(composer)),
          entries \in IterationOrders(DOMAIN InDegree(composer)) :
          LET graph == ComposerCompose(composer, keys, entries)
          IN  /\ compose_result' = [op |-> "compose", graph |-> graph]
              /\ composed_graphs' = IF keep /\ graph.ok
                                    THEN composed_graphs \cup {graph.value}
                                    ELSE composed_graphs
    /\ composer' = composer
    /\ LinkerIdle /\ PcoIdle

\* nothing has been done with the linker and the composer
GraphsIdle ==
    /\ linker = GraphLinkerNew
    /\ link_result = NoResult
    /\ composer = GraphComposerNew
    /\ compose_result = NoResult
    /\ composed_graphs = {}

(* -------- signing and checking one order (SpecSign) ------------------- *)
\* One run signs one PCO, through ProofCarryingOrder::new or one of the
\* builders, may then alter it, and checks its signature.

NothingBuilt == pcos = <<>>
BuilderIdle == builder # Consumed /\ builder.execution_trace = <<>>
BatchIdle == batch.base_trace = <<>>

SignInit ==
    /\ signer_now = Epoch
    /\ verifier_now = Epoch
    /\ overflow_checks = FALSE
    /\ \E sk \in SigningKeys :
          /\ builder = PcoBuilderNew(sk)
          /\ batch = BatchPcoBuilderNew(sk, HashOne)
    /\ pcos = <<>>
    /\ origin = <<>>
    /\ changed = Untouched
    /\ verifier = PcoVerifierNew
    /\ result = NoResult
    /\ calls = NoCalls
    /\ AuxIdle
    /\ GraphsIdle

SignNext ==
    \/ \E order \in Orders, trace \in SeqsUpTo({HashOne}, MaxTrace) :
          NothingBuilt /\ BuilderIdle /\ BatchIdle
              /\ PcoNew(order, HashOne, HashOne, trace, batch.signing_key)
    \/ \E name \in {NodeA} :
          NothingBuilt /\ BatchIdle /\ RecordNode(name, HashOne)
    \/ \E name \in {NodeA} :
          NothingBuilt /\ BatchIdle /\ RecordNodeByName(name)
    \/ NothingBuilt /\ BatchIdle /\ Clear
    \/ \E order \in Orders :
          NothingBuilt /\ BatchIdle /\ Build(order, HashOne, MarketData(F64FiftyK))
    \/ \E order \in Orders :
          NothingBuilt /\ BatchIdle /\ BuildWithInputHash(order, HashOne, HashOne)
    \/ \E name \in {NodeA} :
          NothingBuilt /\ BuilderIdle /\ RecordSharedNode(name)
    \/ \E order \in Orders, names \in SeqsUpTo({NodeB}, 1) :
          NothingBuilt /\ BuilderIdle
              /\ BuildForOrder(order, MarketData(F64FiftyK), names)
    \/ TamperByte
    \/ \E coid \in ClientOrderIds, sh \in {HashOne, HashAscii}, ih \in {HashOne, HashAscii},
          trace \in SeqsUpTo({HashOne}, MaxTrace) :
          ReplaceFields(coid, sh, ih, trace)
    \/ CheckSignature

SpecSign == SignInit /\ [][SignNext]_vars

Verified == result.op = "verify_signature"

\* the fields of p that the signature covers
SignedFields(p) == [p EXCEPT !.signature = NoDelta]

\* C1 (as claimed): whenever a signed field of a signed PCO is changed, in
\* length or in content, the signing message of the changed PCO differs from
\* the one that was signed, and verify_signature with the original signature
\* does not return Ok(true).
C1_FieldChangeInvalidates ==
    (changed.kind # "none" /\ SignedFields(pcos[1]) # SignedFields(changed.original))
        => /\ BuildMessage(pcos[1]) # BuildMessage(changed.original)
           /\ Verified => result.value # "Ok(true)"

\* C2: a PCO that verified and then had one byte of one field replaced, all
\* lengths kept, makes verify_signature return an error.
C2_TamperDetected ==
    (Verified /\ changed.kind = "byte"
        /\ VerifySignature(changed.original) = "Ok(true)")
        => result.value \in {"Err(InvalidPublicKey)", "Err(InvalidSignature)"}

C2_Witness ==
    /\ Verified
    /\ changed.kind = "byte"
    /\ pcos[1].execution_trace # changed.original.execution_trace
    /\ result.value = "Err(InvalidSignature)"

\* C3: a PCO returned by new, build, build_with_input_hash or
\* build_for_order and left as it is carries the public key of the signing
\* key, and verify_signature returns Ok(true) on it.
C3_SignVerifyRoundTrip ==
    \A i \in 1..Len(pcos) :
        changed.kind = "none"
            => /\ pcos[i].agent_pubkey = VerifyingKeyBytes(batch.signing_key)
               /\ VerifySignature(pcos[i]) = "Ok(true)"
               /\ Verified => result.value = "Ok(true)"

C3_Witness ==
    /\ Verified
    /\ changed.kind = "none"
    /\ origin = <<"build_for_order">>
    /\ result.value = "Ok(true)"

(* -------- verifying one order (SpecVerify) ---------------------------- *)
\* One PCO is signed by a process whose clock may differ from the
\* verifier's, may have a field replaced on the way, and is verified.

\* seconds that pass on a clock before it is read
ClockSteps == {1, 60, 61, 3600, 3601}

\* values given to with_max_age
MaxAges == {0, 60}

VerifyInit ==
    /\ signer_now = Epoch
    /\ verifier_now = Epoch
    /\ overflow_checks \in BOOLEAN
    /\ builder = PcoBuilderNew(1)
    /\ batch = BatchPcoBuilderNew(1, HashOne)
    /\ pcos = <<>>
    /\ origin = <<>>
    /\ changed = Untouched
    /\ verifier = PcoVerifierNew
    /\ result = NoResult
    /\ calls = NoCalls
    /\ AuxIdle
    /\ GraphsIdle

NothingChecked == result.op = "none"

VerifyNext ==
    \/ \E d \in ClockSteps : NothingBuilt /\ signer_now = Epoch /\ TickSigner(d)
    \/ \E d \in ClockSteps : NothingChecked /\ verifier_now = Epoch /\ TickVerifier(d)
    \/ \E trace \in SeqsUpTo({HashOne}, MaxTrace), sk \in SigningKeys :
          NothingBuilt /\ PcoNew(LimitOrder(StrX), HashOne, HashOne, trace, sk)
    \/ /\ Len(pcos) = 1
       /\ NothingChecked
       /\ ReplaceFields(pcos[1].order.client_order_id, HashAscii,
                        pcos[1].input_hash, pcos[1].execution_trace)
    \/ \E m \in MaxAges : NothingChecked /\ WithMaxAge(U64(m))
    \/ \E h \in {HashOne, HashAscii} : NothingChecked /\ RegisterStrategy(h)
    \/ NothingChecked /\ RegisterAgent(VerifyingKeyBytes(1))
    \/ CheckTimestamp
    \/ Verify

SpecVerify == VerifyInit /\ [][VerifyNext]_vars

\* the PCO's timestamp is more than 60 seconds ahead of the clock
InFuture(p, now) == GtU64(p.timestamp, AddU64(now, U64(60)))

\* the PCO is older than max_age seconds
OlderThan(p, now, max_age) ==
    GtU64(now, p.timestamp) /\ GtU64(SubU64(now, p.timestamp), max_age)

\* C4 (as claimed): verify_timestamp rejects a PCO exactly when its
\* timestamp is more than 60 seconds ahead of the verifier's clock or the
\* PCO is older than max_age, and returns Ok(true) otherwise, so also for a
\* timestamp 1 to 60 seconds ahead; PcoVerifier::new sets max_age to 3600.
C4_TimestampFreshness ==
    /\ PcoVerifierNew.max_age_secs = U64(3600)
    /\ result.op = "verify_timestamp"
        => /\ result.value.outcome = "returned"
           /\ IF InFuture(pcos[1], verifier_now)
                    \/ OlderThan(pcos[1], verifier_now, verifier.max_age_secs)
              THEN result.value.value.status = "Err(TimestampError)"
              ELSE result.value.value = TimestampOk

VerifyReturned == result.op = "verify" /\ result.value.outcome = "returned"

\* C5: in the VerificationResult verify returns, is_valid is the
\* conjunction of signature_valid, timestamp_valid and trace_valid;
\* trace_valid says the execution trace is non-empty, and trace_length is
\* then its length.
C5_IsValidConjunction ==
    VerifyReturned =>
        LET r == result.value.value
        IN  /\ r.is_valid <=> (r.signature_valid /\ r.timestamp_valid /\ r.trace_valid)
            /\ r.trace_valid <=> pcos[1].execution_trace # <<>>
            /\ r.trace_valid => r.trace_length = Len(pcos[1].execution_trace)

C5_Witness ==
    /\ VerifyReturned
    /\ result.value.value.signature_valid
    /\ result.value.value.timestamp_valid
    /\ ~result.value.value.trace_valid
    /\ ~result.value.value.is_valid

\* how many of the three checks of verify the PCO fails
FailedChecks(p) ==
    (IF VerifySignature(p) = "Ok(true)" THEN 0 ELSE 1)
        + (IF VerifyTimestamp(p, verifier.max_age_secs, verifier_now, FALSE).value.status
                 = "Ok(true)" THEN 0 ELSE 1)
        + (IF p.execution_trace = <<>> THEN 1 ELSE 0)

\* C6 (as claimed): verify returns a result for every PCO, with one entry
\* of result.errors for each of the three checks the PCO fails, and
\* is_valid false as soon as one fails.
C6_AllChecksReported ==
    result.op = "verify"
        => /\ result.value.outcome = "returned"
           /\ Len(result.value.value.errors) = FailedChecks(pcos[1])
           /\ FailedChecks(pcos[1]) > 0 => ~result.value.value.is_valid

\* C7 (as claimed): once a strategy (an agent) has been registered, verify
\* does not report is_valid for a PCO whose strategy hash (agent key) is not
\* registered; with nothing registered the sets have no effect.
C7_KnownSetIsWhitelist ==
    VerifyReturned =>
        LET r == result.value.value
            p == pcos[1]
        IN  /\ (verifier.known_strategies # {} /\ p.strategy_hash \notin verifier.known_strategies)
                  => ~r.is_valid
            /\ (verifier.known_agents # {} /\ p.agent_pubkey \notin verifier.known_agents)
                  => ~r.is_valid
            /\ (verifier.known_strategies = {} /\ verifier.known_agents = {})
                  => r.warnings = <<>>

(* -------- orders of one strategy cycle (SpecBatch) -------------------- *)
\* A BatchPcoBuilder records shared nodes and builds PCOs for orders while
\* the clock runs; the PCOs are then checked with verify_same_execution.

MaxBatch == 3
MaxDrift == 2

\* the sequences of distinct indices into 1..n, of every length
Arrangements(n) ==
    {q \in SeqsUpTo(1..n, n) : \A i, j \in 1..Len(q) : i # j => q[i] # q[j]}

\* the arrangements of all of 1..n
FullArrangements(n) == {q \in Arrangements(n) : Len(q) = n}

BatchInit ==
    /\ signer_now = Epoch
    /\ verifier_now = Epoch
    /\ overflow_checks = FALSE
    /\ builder = PcoBuilderNew(1)
    /\ batch = BatchPcoBuilderNew(1, HashOne)
    /\ pcos = <<>>
    /\ origin = <<>>
    /\ changed = Untouched
    /\ verifier = PcoVerifierNew
    /\ result = NoResult
    /\ calls = NoCalls
    /\ AuxIdle
    /\ GraphsIdle

ClockWithin(d) == ~GtU64(AddU64(signer_now, U64(1)), AddU64(Epoch, U64(d)))

\* verify_same_execution has not been called yet
SliceUnchecked == result.op # "verify_same_execution"

BatchNext ==
    \/ SliceUnchecked /\ ClockWithin(MaxDrift) /\ TickSigner(1)
    \/ SliceUnchecked /\ RecordSharedNode(NodeA)
    \/ \E names \in {<<>>, <<NodeB>>} :
          /\ SliceUnchecked
          /\ Len(pcos) < MaxBatch
          /\ BuildForOrder(LimitOrder(StrX), MarketData(F64FiftyK), names)
    \/ \E idx \in Arrangements(Len(pcos)) :
          SliceUnchecked /\ CheckSameExecution(idx)

SpecBatch == BatchInit /\ [][BatchNext]_vars

(* -------- PCOs of several executions (SpecSplice) --------------------- *)
\* PCOs built from two snapshots by one BatchPcoBuilder, and PCOs signed
\* for another strategy or by another agent, before and after the clock
\* has moved, are handed to verify_same_execution in every order.

SpliceNext ==
    \/ SliceUnchecked /\ signer_now = Epoch /\ TickSigner(2)
    \/ \E md \in Snapshots :
          /\ SliceUnchecked
          /\ Len(pcos) < MaxBatch
          /\ BuildForOrder(LimitOrder(StrX), md, <<NodeA>>)
    \/ \E sk \in SigningKeys :
          /\ SliceUnchecked
          /\ Len(pcos) < MaxBatch
          /\ PcoNew(LimitOrder(StrX), IF sk = 1 THEN HashAscii ELSE HashOne,
                    MarketDataHash(MarketData(F64FiftyK)), <<HashOne>>, sk)
    \/ \E idx \in FullArrangements(Len(pcos)) :
          SliceUnchecked /\ CheckSameExecution(idx)

SpecSplice == BatchInit /\ [][SpliceNext]_vars

(* ---------------------- claims C8 to C10 ------------------------------ *)

SameExecutionChecked == result.op = "verify_same_execution"

\* C8: when verify_same_execution returns Ok(true), any two PCOs of the
\* batch have timestamps at most one second apart, in whatever order the
\* batch lists them.
C8_PairwiseWithinOneSecond ==
    (SameExecutionChecked /\ result.value = "Ok(true)") =>
        \A i, j \in DOMAIN result.batch :
            ~GtU64(TimeDiff(result.batch[i].timestamp, result.batch[j].timestamp),
                   U64(1))

\* the positions after the first whose PCO fails a check against the first
Offending(b) == {i \in 2..Len(b) : MismatchWith(b[1], b[i]) # "none"}

SharedContext(b) ==
    \A i \in DOMAIN b :
        /\ b[i].strategy_hash = b[1].strategy_hash
        /\ b[i].input_hash = b[1].input_hash
        /\ b[i].agent_pubkey = b[1].agent_pubkey

\* C9 as stated: Ok(true) only if all PCOs share strategy hash, input hash
\* and agent key; a batch with a PCO whose strategy_hash differs is rejected
\* with StrategyHashMismatch, one whose input_hash differs with
\* InputHashMismatch, one whose agent key differs with InvalidPublicKey;
\* fewer than two PCOs are accepted.
C9_ErrorNamesTheDifference ==
    SameExecutionChecked =>
        LET b == result.batch
        IN  /\ result.value = "Ok(true)" => SharedContext(b)
            /\ (\E i \in DOMAIN b : b[i].strategy_hash # b[1].strategy_hash)
                   => result.value = "Err(StrategyHashMismatch)"
            /\ (\E i \in DOMAIN b : b[i].input_hash # b[1].input_hash)
                   => result.value = "Err(InputHashMismatch)"
            /\ (\E i \in DOMAIN b : b[i].agent_pubkey # b[1].agent_pubkey)
                   => result.value = "Err(InvalidPublicKey)"
            /\ Len(b) < 2 => result.value = "Ok(true)"

\* the error a PCO that differs from the reference is rejected with: the
\* strategy hash comes first, then the input hash, then the agent key, and
\* the timestamp last
ErrorOf(reference, p) ==
    CASE p.strategy_hash # reference.strategy_hash -> "Err(StrategyHashMismatch)"
      [] p.strategy_hash = reference.strategy_hash
         /\ p.input_hash # reference.input_hash -> "Err(InputHashMismatch)"
      [] p.strategy_hash = reference.strategy_hash
         /\ p.input_hash = reference.input_hash
         /\ p.agent_pubkey # reference.agent_pubkey -> "Err(InvalidPublicKey)"
      [] OTHER -> "Err(TimestampError)"

\* C9: verify_same_execution returns Ok(true) only if all PCOs share
\* strategy hash, input hash and agent key, and always for fewer than two
\* PCOs; a batch with a PCO that differs from the first in one of them is
\* rejected, and the error is that of the first PCO in batch order that
\* fails a check against the first PCO: StrategyHashMismatch if its
\* strategy_hash differs, else InputHashMismatch if its input_hash differs,
\* else InvalidPublicKey if its agent key differs, else TimestampError.
C9_FirstOffenderReported ==
    SameExecutionChecked =>
        LET b == result.batch
        IN  /\ result.value = "Ok(true)" => SharedContext(b)
            /\ Offending(b) # {} =>
                  \E i \in Offending(b) :
                      /\ \A j \in Offending(b) : i <= j
                      /\ result.value = ErrorOf(b[1], b[i])
            /\ Len(b) < 2 => result.value = "Ok(true)"

\* a batch rejected for its agent key although an earlier PCO shares strategy,
\* input and key, with a later one of another strategy
C9_Witness ==
    /\ SameExecutionChecked
    /\ Len(result.batch) = 3
    /\ result.value = "Err(InvalidPublicKey)"
    /\ result.batch[3].strategy_hash # result.batch[1].strategy_hash

\* C10: two PCOs built by build_for_order of one BatchPcoBuilder with the
\* same market-data snapshot and different trace suffixes are accepted
\* together by verify_same_execution.
C10_BatchBuilderPcosAccepted ==
    ( /\ SameExecutionChecked
      /\ Len(result.batch) = 2
      /\ result.batch[1].input_hash = result.batch[2].input_hash
      /\ result.batch[1].execution_trace # result.batch[2].execution_trace )
        => result.value = "Ok(true)"

(* -------- traces against a strategy graph (SpecTrace) ----------------- *)
\* One PCO is signed with some trace and checked against the node hashes
\* and the valid paths of a strategy.

MaxNodes == 2
MaxPaths == 2

\* the node hashes a strategy may list, the same hash possibly twice
NodeHashLists == SeqsUpTo({HashOne, HashAscii}, MaxNodes)

\* paths are sequences of node indices counted from 0, some beyond the list
Paths == SeqsUpTo(0..MaxNodes, MaxTrace)

TraceNext ==
    \/ \E trace \in SeqsUpTo({HashOne, HashAscii}, MaxTrace) :
          /\ NothingBuilt
          /\ PcoNew(LimitOrder(StrX), HashOne, HashOne, trace, 1)
    \/ \E hashes \in NodeHashLists, paths \in SeqsUpTo(Paths, MaxPaths) :
          /\ NothingChecked
          /\ CheckExecutionTrace(hashes, paths)

SpecTrace == BatchInit /\ [][TraceNext]_vars

(* ---------------------- claim C11 ------------------------------------- *)

\* the path, of indices counted from 0, names the nodes of the trace
PathMatches(path, execution_trace, strategy_node_hashes) ==
    /\ Len(path) = Len(execution_trace)
    /\ \A k \in DOMAIN path :
          /\ path[k] < Len(strategy_node_hashes)
          /\ execution_trace[k] = strategy_node_hashes[path[k] + 1]

\* C11: verify_execution_trace returns InvalidExecutionTrace if a trace
\* entry is not among strategy_node_hashes; otherwise Ok(true) if
\* valid_paths is empty; otherwise Ok(true) exactly when some path of
\* valid_paths has the length of the trace and names, index by index, the
\* node hashes of the trace, and InvalidExecutionTrace when none does.
C11_TraceMatchesSomePath ==
    result.op = "verify_execution_trace" =>
        LET t == pcos[1].execution_trace
            h == result.strategy_node_hashes
            ps == result.valid_paths
        IN  IF \E k \in DOMAIN t : t[k] \notin Range(h)
            THEN result.value = "Err(InvalidExecutionTrace)"
            ELSE IF ps = <<>> THEN result.value = "Ok(true)"
            ELSE IF \E i \in DOMAIN ps : PathMatches(ps[i], t, h)
            THEN result.value = "Ok(true)"
            ELSE result.value = "Err(InvalidExecutionTrace)"

(* -------- shared prefix of a batch (SpecPrefix) ----------------------- *)
\* A BatchPcoBuilder records shared nodes and builds PCOs for orders, in
\* any interleaving.

PrefixNext ==
    \/ \E name \in {NodeA, NodeB} : RecordSharedNode(name)
    \/ \E names \in SeqsUpTo({NodeA}, 1) :
          /\ Len(pcos) < MaxBatch
          /\ BuildForOrder(LimitOrder(StrX), MarketData(F64FiftyK), names)

SpecPrefix == BatchInit /\ [][PrefixNext]_vars

(* ---------------------- claims C12 to C14 ----------------------------- *)

\* C12: the trace of a PcoBuilder is the sequence of hashes recorded since
\* it was created or cleared, in call order, and the PCO that build returns
\* carries that sequence as its execution_trace.
C12_TraceInCallOrder ==
    /\ builder # Consumed => builder.execution_trace = calls.nodes
    /\ \A i \in 1..Len(pcos) :
          (origin[i] = "build" /\ changed.kind = "none")
              => pcos[i].execution_trace = calls.nodes

C12_Witness ==
    /\ origin = <<"build">>
    /\ changed.kind = "none"
    /\ calls.nodes = <<HashOne, HashNodeName(NodeA)>>

\* a build or build_with_input_hash step: the builder is taken by value
BuilderTaken == builder # Consumed /\ builder' = Consumed

\* a build_for_order step
BatchBuildStep ==
    /\ result'.op = "build_for_order"
    /\ changed' = changed
    /\ <<result, pcos>>' # <<result, pcos>> \/ calls'.suffix # calls.suffix

\* C13: build and build_with_input_hash on a builder with nothing recorded,
\* and build_for_order with no shared node and no suffix, return
\* InvalidExecutionTrace and produce no PCO; every PCO a builder returns has
\* a non-empty execution_trace.
C13_EmptyTraceRejected ==
    [][ /\ (BuilderTaken /\ calls.nodes = <<>>)
            => (result'.value = "InvalidExecutionTrace" /\ pcos' = pcos)
        /\ (BatchBuildStep /\ calls.shared = <<>> /\ calls'.suffix = <<>>)
            => (result'.value = "InvalidExecutionTrace" /\ pcos' = pcos)
        /\ (Len(pcos') = Len(pcos) + 1 /\ origin'[Len(pcos')] # "new")
            => pcos'[Len(pcos')].execution_trace # <<>> ]_vars

C13_Witness ==
    /\ builder = Consumed
    /\ calls.nodes = <<>>
    /\ result.op = "build"
    /\ result.value = "InvalidExecutionTrace"
    /\ pcos = <<>>

\* the hashes of the node names, in order
NameHashes(names) == [i \in 1..Len(names) |-> HashNodeName(names[i])]

\* C14: the PCO that build_for_order returns has as execution_trace the
\* hashes of the shared nodes recorded so far, in record order, followed by
\* the hashes of the suffix names, and build_for_order leaves the shared
\* prefix as it is.
C14_SharedPrefixThenSuffix ==
    [][ BatchBuildStep
            => /\ batch' = batch
               /\ Len(pcos') = Len(pcos) + 1
                    => pcos'[Len(pcos')].execution_trace
                         = NameHashes(calls.shared) \o NameHashes(calls'.suffix) ]_vars

\* two orders built around a further shared node: the second has the longer
\* prefix, the first keeps its own
C14_Witness ==
    /\ Len(pcos) = 2
    /\ calls.shared = <<NodeB, NodeA>>
    /\ pcos[1].execution_trace = <<HashNodeName(NodeB), HashNodeName(NodeA)>>
    /\ pcos[2].execution_trace
         = <<HashNodeName(NodeB), HashNodeName(NodeA), HashNodeName(NodeA)>>

(* -------- linking nodes (SpecLink) ------------------------------------ *)
\* Nodes are registered, and registered again, under two names; outputs
\* are connected to inputs by name; the graph is validated.

MaxConnections == 2

PortIn0 == <<105, 110, 48>>
PortIn1 == <<105, 110, 49>>
PortOut0 == <<111, 117, 116, 48>>
PortOut1 == <<111, 117, 116, 49>>

\* create_test_node(name, 1, 1): one required scalar input, one scalar output
ScalarNode(name) ==
    NodeInfo(Sha256(name), name, <<PortInfo(PortIn0, <<1>>, TRUE)>>,
             <<PortInfo(PortOut0, <<1>>, FALSE)>>)

\* ports of a node with an optional input and an output of any shape, and a
\* required input and an output of shape [5, 2]
WideInputs == <<PortInfo(PortIn0, <<>>, FALSE), PortInfo(PortIn1, <<5, 2>>, TRUE)>>
WideOutputs == <<PortInfo(PortOut0, <<>>, FALSE), PortInfo(PortOut1, <<5, 2>>, FALSE)>>

NodeNames == {NodeA, NodeB}
PortIndices == {0, 1}

\* nothing has been done with orders
PcoUnused ==
    /\ signer_now = Epoch
    /\ verifier_now = Epoch
    /\ overflow_checks = FALSE
    /\ builder = PcoBuilderNew(1)
    /\ batch = BatchPcoBuilderNew(1, HashOne)
    /\ pcos = <<>>
    /\ origin = <<>>
    /\ changed = Untouched
    /\ verifier = PcoVerifierNew
    /\ result = NoResult
    /\ calls = NoCalls
    /\ AuxIdle

LinkInit == PcoUnused /\ GraphsIdle

LinkNext ==
    \/ \E name \in NodeNames : RegisterNode(ScalarNode(name))
    \/ \E name \in NodeNames : RegisterNodeByName(name, WideInputs, WideOutputs)
    \/ \E from_name, to_name \in NodeNames, from_port, to_port \in PortIndices :
          /\ Len(linker.connections) < MaxConnections
          /\ Connect(ConnectionFromNames(from_name, from_port, to_name, to_port))
    \/ \E from_name, to_name \in NodeNames :
          /\ Len(linker.connections) < MaxConnections
          /\ ConnectByName(from_name, 0, to_name, 0)
    \/ Validate

SpecLink == LinkInit /\ [][LinkNext]_vars

(* ---------------------- claims C15 to C19 ----------------------------- *)

\* the connections of l into the input port
ConnectionsInto(l, node, port) ==
    {i \in DOMAIN l.connections :
        l.connections[i].to_node = node /\ l.connections[i].to_port = port}

\* C15: the connection list of a GraphLinker never holds two connections
\* into the same (to_node, to_port).
C15_SingleWriter ==
    \A i, j \in DOMAIN linker.connections :
        (/\ linker.connections[i].to_node = linker.connections[j].to_node
         /\ linker.connections[i].to_port = linker.connections[j].to_port) => i = j

C15_Witness ==
    /\ Len(linker.connections) = 1
    /\ link_result.op = "connect"
    /\ link_result.value = "Err(AlreadyConnected)"
    /\ link_result.connection.from_node # linker.connections[1].from_node

\* a connect call whose target input has a connection already
ConnectToBoundInput ==
    /\ link_result'.op = "connect"
    /\ ConnectionsInto(linker, link_result'.connection.to_node,
                       link_result'.connection.to_port) # {}

\* source_of the target of the connect call is what it was, the source of
\* the first connection into that input
FirstConnectionStays ==
    LET c == link_result'.connection
        first == linker.connections[CHOOSE i \in ConnectionsInto(linker, c.to_node, c.to_port) :
                                       \A j \in ConnectionsInto(linker, c.to_node, c.to_port) : i <= j]
    IN  /\ linker'.connections = linker.connections
        /\ LinkerSourceOf(linker', c.to_node, c.to_port)
             = Some(<<first.from_node, first.from_port>>)

\* C16 as stated: a connect into an input that has a connection returns
\* AlreadyConnected whatever its source node, source port or shapes, and
\* leaves the connection list as it is, so source_of still reports the
\* first connection.
C16_AlreadyConnectedWhateverTheSource ==
    [][ ConnectToBoundInput
            => (link_result'.value = "Err(AlreadyConnected)" /\ FirstConnectionStays) ]_vars

\* both ends of the connection name a registered node and a port it has
EndsExist(l, c) ==
    /\ \E n \in NodesGet(l, c.from_node) : c.from_port < Len(n.outputs)
    /\ \E n \in NodesGet(l, c.to_node) : c.to_port < Len(n.inputs)

\* C16: a connect into an input that has a connection fails and leaves the
\* connection list as it is, so source_of still reports the first
\* connection; it returns AlreadyConnected when both nodes are registered
\* and both ports exist, whatever the shapes, and otherwise NodeNotFound or
\* PortNotFound.
C16_BoundInputRejected ==
    [][ ConnectToBoundInput
            => /\ FirstConnectionStays
               /\ IF EndsExist(linker, link_result'.connection)
                  THEN link_result'.value = "Err(AlreadyConnected)"
                  ELSE link_result'.value \in {"Err(NodeNotFound)", "Err(PortNotFound)"} ]_vars

\* an input of another shape than the new source, already connected
C16_Witness ==
    /\ link_result.op = "connect"
    /\ link_result.value = "Err(AlreadyConnected)"
    /\ Len(linker.connections) = 1
    /\ link_result.connection.from_port # linker.connections[1].from_port

\* every required input of every registered node has a connection
RequiredInputsBound(l) ==
    \A node \in l.nodes : \A k \in DOMAIN node.inputs :
        node.inputs[k].required => ConnectionsInto(l, node.id, k - 1) # {}

\* C17: validate returns Ok exactly when every required input of every
\* registered node is the target of a connection, and InvalidGraph
\* otherwise; it changes nothing.
C17_ValidateRequiredInputs ==
    /\ [](link_result.op = "validate"
            => link_result.value
                 = IF RequiredInputsBound(linker) THEN "Ok(())" ELSE "Err(InvalidGraph)")
    /\ [][link_result'.op = "validate" => linker' = linker]_vars

C17_Witness ==
    /\ link_result.op = "validate"
    /\ link_result.value = "Ok(())"
    /\ linker.connections # <<>>
    /\ \E node \in linker.nodes : \E k \in DOMAIN node.inputs : node.inputs[k].required

\* a connect call between registered nodes and existing ports, into an
\* input without a connection
ConnectToFreeInput ==
    /\ link_result'.op = "connect"
    /\ EndsExist(linker, link_result'.connection)
    /\ ConnectionsInto(linker, link_result'.connection.to_node,
                       link_result'.connection.to_port) = {}

\* C18: such a connect fails with ShapeMismatch exactly when the shape of
\* the source output and the shape of the target input are both non-empty
\* and unequal; otherwise the connection is accepted and appended.
C18_ShapeCompatibility ==
    [][ ConnectToFreeInput
            => LET c == link_result'.connection
                   from_node == CHOOSE n \in NodesGet(linker, c.from_node) : TRUE
                   to_node == CHOOSE n \in NodesGet(linker, c.to_node) : TRUE
                   from_shape == from_node.outputs[c.from_port + 1].shape
                   to_shape == to_node.inputs[c.to_port + 1].shape
               IN  IF from_shape # <<>> /\ to_shape # <<>> /\ from_shape # to_shape
                   THEN /\ link_result'.value = "Err(ShapeMismatch)"
                        /\ linker' = linker
                   ELSE /\ link_result'.value = "Ok(())"
                        /\ linker'.connections = Append(linker.connections, c) ]_vars

\* a scalar output accepted by an input of any shape
C18_Witness ==
    /\ link_result.op = "connect"
    /\ link_result.value = "Ok(())"
    /\ \E n \in NodesGet(linker, link_result.connection.from_node) :
          n.outputs[link_result.connection.from_port + 1].shape = <<1>>
    /\ \E n \in NodesGet(linker, link_result.connection.to_node) :
          /\ link_result.connection.to_port < Len(n.inputs)
          /\ n.inputs[link_result.connection.to_port + 1].shape = <<>>

\* C19: the NodeInfo stored for a registered id is never changed by a
\* later operation, a later register_node or register_node_by_name with the
\* same id included.
C19_NodeInfoImmutable ==
    [][\A node \in linker.nodes : node \in linker'.nodes]_vars

(* -------- composing subgraphs (SpecCompose) --------------------------- *)
\* Subgraphs are imported, and imported again, under two names, and
\* outputs are connected to inputs by name.

StrInput == <<105, 110, 112, 117, 116>>
StrOutput == <<111, 117, 116, 112, 117, 116>>
StrTestSubgraph == <<84, 101, 115, 116, 32, 115, 117, 98, 103, 114, 97, 112, 104, 58, 32>>

\* create_test_subgraph(name)
TestSubgraph(name) ==
    SubgraphMetadata(Sha256(name), name, <<StrInput>>, <<StrOutput>>,
                     StrTestSubgraph \o name)

\* a subgraph of the same name and hash with a second input
TwoInputSubgraph(name) ==
    SubgraphMetadata(Sha256(name), name, <<StrInput, StrX>>, <<StrOutput>>,
                     StrTestSubgraph \o name)

ComposeNext ==
    \/ \E name \in NodeNames : Import(TestSubgraph(name))
    \/ \E name \in NodeNames : Import(TwoInputSubgraph(name))
    \/ \E from_name, to_name \in NodeNames,
          from_output \in {StrOutput, StrInput}, to_input \in {StrInput, StrX} :
          /\ Len(composer.connections) < MaxConnections
          /\ ConnectGraphs(Sha256(from_name), from_output, Sha256(to_name), to_input)

SpecCompose == LinkInit /\ [][ComposeNext]_vars

(* ---------------------- claim C20 ------------------------------------- *)

\* C20: the connection list of a GraphComposer never holds two
\* SubgraphConnections into the same (to_graph, to_input).
C20_ComposerSingleWriter ==
    \A i, j \in DOMAIN composer.connections :
        (/\ composer.connections[i].to_graph = composer.connections[j].to_graph
         /\ composer.connections[i].to_input = composer.connections[j].to_input) => i = j

(* -------- ordering a composition (SpecOrder) -------------------------- *)
\* Up to three test subgraphs are imported and connected output to input,
\* and the composition is checked for cycles, ordered and composed at any
\* moment.

NodeC == <<99>>
SubgraphNames == {NodeA, NodeB, NodeC}

OrderNext ==
    \/ \E name \in SubgraphNames : Import(TestSubgraph(name))
    \/ \E from_name, to_name \in SubgraphNames :
          /\ Len(composer.connections) < MaxConnections
          /\ ConnectGraphs(Sha256(from_name), StrOutput, Sha256(to_name), StrInput)
    \/ CheckCycles
    \/ TopologicalOrder
    \/ Compose(FALSE)

SpecOrder == LinkInit /\ [][OrderNext]_vars

(* ---------------------- claims C21 to C24 ----------------------------- *)

\* the connections as edges from_graph -> to_graph
Edges(c) ==
    {<<c.connections[i].from_graph, c.connections[i].to_graph>> : i \in DOMAIN c.connections}

\* some walk along at least one edge leads from an imported subgraph back
\* to itself
HasDirectedCycle(c) ==
    \E n \in 1..Cardinality(GraphKeys(c)) :
        \E walk \in [1..(n + 1) -> GraphKeys(c)] :
            /\ walk[1] = walk[n + 1]
            /\ \A i \in 1..n : <<walk[i], walk[i + 1]>> \in Edges(c)

\* C21: check_cycles returns CycleDetected exactly when the imported
\* subgraphs with the connections as edges contain a directed cycle, a
\* self-loop included, and Ok otherwise; when it fails, topological_order
\* and compose fail with CycleDetected too and return no ComposedGraph.
C21_CycleRejection ==
    /\ compose_result.op = "check_cycles"
          => compose_result.value
               = IF HasDirectedCycle(composer) THEN "Err(CycleDetected)" ELSE "Ok(())"
    /\ (compose_result.op = "topological_order" /\ HasDirectedCycle(composer))
          => compose_result.order = Err("CycleDetected")
    /\ (compose_result.op = "compose" /\ HasDirectedCycle(composer))
          => compose_result.graph = Err("CycleDetected")

\* a -> b and b -> a refused by compose
C21_Witness ==
    /\ compose_result.op = "compose"
    /\ compose_result.graph = Err("CycleDetected")
    /\ Edges(composer) = {<<Sha256(NodeA), Sha256(NodeB)>>, <<Sha256(NodeB), Sha256(NodeA)>>}

\* order holds every imported subgraph hash exactly once
EachSubgraphOnce(c, order) ==
    /\ Len(order) = Cardinality(GraphKeys(c))
    /\ \A h \in GraphKeys(c) : \E i \in DOMAIN order : order[i] = h

\* in order, the source of every connection comes before its target
SourcesFirst(c, order) ==
    \A k \in DOMAIN c.connections :
        \E i, j \in DOMAIN order :
            /\ i < j
            /\ order[i] = c.connections[k].from_graph
            /\ order[j] = c.connections[k].to_graph

\* C22: for a composition without a cycle, topological_order returns a
\* list that holds every imported subgraph hash exactly once, subgraphs
\* without connections included, and in which from_graph comes before
\* to_graph for every connection, also when several connections join the
\* same two subgraphs.
C22_TopologicalOrder ==
    (compose_result.op = "topological_order" /\ ~HasDirectedCycle(composer))
        => /\ compose_result.order.ok
           /\ EachSubgraphOnce(composer, compose_result.order.value)
           /\ SourcesFirst(composer, compose_result.order.value)

\* a -> b connected twice, c imported and left alone
C22_Witness ==
    /\ compose_result.op = "topological_order"
    /\ compose_result.order.ok
    /\ GraphKeys(composer) = {Sha256(NodeA), Sha256(NodeB), Sha256(NodeC)}
    /\ Len(composer.connections) = 2
    /\ Edges(composer) = {<<Sha256(NodeA), Sha256(NodeB)>>}

\* C23: on an unchanged composer every call of topological_order returns
\* the same order and every call of compose the same ComposedGraph (same
\* subgraph order, same hash), also when several subgraphs have in-degree
\* zero at the same time; the iteration order of the containers does not
\* show in the result.
C23_DeterministicComposition ==
    [][ composer' = composer
            => /\ (compose_result.op = "topological_order"
                      /\ compose_result'.op = "topological_order")
                     => compose_result'.order = compose_result.order
               /\ (compose_result.op = "compose" /\ compose_result'.op = "compose")
                     => compose_result'.graph = compose_result.graph ]_vars

\* the hashes of a list of subgraphs, in order
HashesOf(subgraphs) == [i \in DOMAIN subgraphs |-> subgraphs[i].hash]

\* C24: compose on a composition without a cycle returns a ComposedGraph
\* whose subgraphs are the stored metadata of every imported subgraph, each
\* once, in a topological order of the connections, whose connections are
\* the connection list of the composer in insertion order, and whose hash
\* is calculate_hash of those contents; compose leaves the composer as it
\* is.
C24_ComposeResult ==
    /\ []((compose_result.op = "compose" /\ ~HasDirectedCycle(composer))
            => /\ compose_result.graph.ok
               /\ LET g == compose_result.graph.value
                  IN  /\ \A i \in DOMAIN g.subgraphs : g.subgraphs[i] \in composer.graphs
                      /\ EachSubgraphOnce(composer, HashesOf(g.subgraphs))
                      /\ SourcesFirst(composer, HashesOf(g.subgraphs))
                      /\ g.connections = composer.connections
                      /\ g.hash = Sha256(CalculateHashInput(g)))
    /\ [][compose_result'.op = "compose" => composer' = composer]_vars

\* the chain a -> b -> c composed
C24_Witness ==
    /\ compose_result.op = "compose"
    /\ compose_result.graph.ok
    /\ Len(compose_result.graph.value.subgraphs) = 3
    /\ [i \in 1..3 |-> compose_result.graph.value.subgraphs[i].name] = <<NodeA, NodeB, NodeC>>
    /\ Edges(composer) = {<<Sha256(NodeA), Sha256(NodeB)>>, <<Sha256(NodeB), Sha256(NodeC)>>}

(* -------- wiring and the composed hash (SpecWiring) ------------------- *)
\* A source subgraph with the outputs "x" and "x1" and a target subgraph
\* with the inputs "y" and "1y" are imported into one composer after
\* another, wired and composed; the caller keeps the ComposedGraphs to
\* compare them.

MaxComposed == 2
MaxWires == 1

StrX1 == <<120, 49>>
StrY == <<121>>
Str1Y == <<49, 121>>
StrSource == <<115, 114, 99>>
StrTarget == <<100, 115, 116>>

\* the source subgraph, under the SHA-256 of its name
SourceSubgraph ==
    SubgraphMetadata(Sha256(StrSource), StrSource, <<>>, <<StrX, StrX1>>, <<>>)

\* the target subgraph, under a hash whose bytes are all the character '1'
TargetSubgraph ==
    SubgraphMetadata(HashAscii, StrTarget, <<StrY, Str1Y>>, <<>>, <<>>)

WiringNext ==
    \/ /\ composed_graphs # {}
       /\ composer.graphs # {}
       /\ NewComposer
    \/ \E metadata \in {SourceSubgraph, TargetSubgraph} :
          /\ metadata \notin composer.graphs
          /\ Import(metadata)
    \/ \E from_output \in {StrX, StrX1}, to_input \in {StrY, Str1Y} :
          /\ Len(composer.connections) < MaxWires
          /\ ConnectGraphs(SourceSubgraph.hash, from_output, TargetSubgraph.hash, to_input)
    \/ /\ Cardinality(composed_graphs) < MaxComposed
       /\ Compose(TRUE)

SpecWiring == LinkInit /\ [][WiringNext]_vars

(* ---------------------- claim C25 ------------------------------------- *)

\* two ComposedGraphs of the same subgraphs that differ in their
\* connection list or in the order of their subgraphs
DifferInWiringOrOrder(g1, g2) ==
    /\ {g1.subgraphs[i] : i \in DOMAIN g1.subgraphs} = {g2.subgraphs[i] : i \in DOMAIN g2.subgraphs}
    /\ Len(g1.subgraphs) = Len(g2.subgraphs)
    /\ g1.connections # g2.connections \/ g1.subgraphs # g2.subgraphs

\* C25: two ComposedGraphs that have the same subgraphs and differ in
\* their connection list or in their subgraph order have different hash
\* pre-images (name, subgraph hashes in order, then from_graph,
\* from_output, to_graph, to_input of each connection), and different
\* hashes.
C25_OrderSensitiveHash ==
    \A g1, g2 \in composed_graphs :
        DifferInWiringOrOrder(g1, g2)
            => /\ CalculateHashInput(g1) # CalculateHashInput(g2)
               /\ g1.hash # g2.hash

(* ---------------------- claims C26 and C27 --------------------------- *)

\* C26: import returns the hash of the metadata; afterwards the metadata
\* is what is stored under that hash, in place of what was stored there, no
\* subgraph is added for a hash already present and the connection list is
\* as before; importing metadata that is already stored changes nothing.
C26_ImportIdempotent ==
    [][ compose_result'.op = "import"
            => LET metadata == compose_result'.metadata
               IN  /\ compose_result'.hash = metadata.hash
                   /\ composer'.graphs
                        = {g \in composer.graphs : g.hash # metadata.hash} \cup {metadata}
                   /\ GraphKeys(composer') = GraphKeys(composer) \cup {metadata.hash}
                   /\ Cardinality(composer'.graphs) = Cardinality(GraphKeys(composer'))
                   /\ composer'.connections = composer.connections
                   /\ metadata \in composer.graphs => composer' = composer ]_vars

\* the two-input subgraph a, wired at its second input, replaced by the
\* one-input subgraph of the same hash
C26_Witness ==
    /\ compose_result.op = "import"
    /\ compose_result.metadata = TestSubgraph(NodeA)
    /\ composer.graphs = {TestSubgraph(NodeA)}
    /\ \E i \in DOMAIN composer.connections :
          /\ composer.connections[i].to_graph = Sha256(NodeA)
          /\ composer.connections[i].to_input = StrX

\* the names in a list of port names
Names(ports) == {ports[i] : i \in DOMAIN ports}

\* C27: connect returns GraphNotFound when from_graph or to_graph has not
\* been imported, otherwise OutputNotFound when from_output is not an
\* output of from_graph, otherwise InputNotFound when to_input is not an
\* input of to_graph, and otherwise appends exactly one SubgraphConnection;
\* a failing connect leaves the subgraphs and the connection list as they
\* are.
C27_ComposerConnectErrors ==
    [][ compose_result'.op = "connect"
            => LET conn == compose_result'.connection
                   from_meta == {g \in composer.graphs : g.hash = conn.from_graph}
                   to_meta == {g \in composer.graphs : g.hash = conn.to_graph}
                   expected ==
                       IF from_meta = {} \/ to_meta = {} THEN "Err(GraphNotFound)"
                       ELSE IF \A g \in from_meta : conn.from_output \notin Names(g.outputs)
                       THEN "Err(OutputNotFound)"
                       ELSE IF \A g \in to_meta : conn.to_input \notin Names(g.inputs)
                       THEN "Err(InputNotFound)"
                       ELSE "Ok(())"
               IN  /\ compose_result'.value = expected
                   /\ composer'.graphs = composer.graphs
                   /\ composer'.connections
                        = IF expected = "Ok(())" THEN Append(composer.connections, conn)
                          ELSE composer.connections ]_vars

\* neither the output nor the input exists: the output is reported
C27_Witness ==
    /\ compose_result.op = "connect"
    /\ compose_result.connection
         = SubgraphConnection(Sha256(NodeA), StrInput, Sha256(NodeA), StrX)
    /\ compose_result.value = "Err(OutputNotFound)"
    /\ composer.graphs = {TestSubgraph(NodeA)}

(* -------- node identities (SpecIdentity) ------------------------------ *)
\* Nodes are built with NodeBuilder and registered, or registered by name
\* with other ports, connected by name, and recorded by name in the trace
\* of a PcoBuilder.

\* NodeBuilder::new(name).with_scalar_input("in0", true)
\* .with_scalar_output("out0").build()
BuiltScalarNode(name) ==
    NodeBuilderBuild(WithScalarOutput(WithScalarInput(NodeBuilderNew(name), PortIn0, TRUE),
                                      PortOut0))

\* NodeBuilder::new(name).build()
BuiltBareNode(name) == NodeBuilderBuild(NodeBuilderNew(name))

IdentityNext ==
    \/ \E name \in NodeNames : RegisterNode(BuiltScalarNode(name))
    \/ \E name \in NodeNames : RegisterNode(BuiltBareNode(name))
    \/ \E name \in NodeNames : RegisterNodeByName(name, WideInputs, WideOutputs)
    \/ \E from_name, to_name \in NodeNames :
          /\ Len(linker.connections) < MaxConnections
          /\ ConnectByName(from_name, 0, to_name, 0)
    \/ \E name \in NodeNames : RecordNodeByName(name)

SpecIdentity == LinkInit /\ [][IdentityNext]_vars

(* ---------------------- claim C28 ------------------------------------- *)

\* the ids of the registered nodes called name
IdsOf(name) == {node.id : node \in {n \in linker.nodes : n.name = name}}

\* C28: the id of a node built by NodeBuilder, the id given by
\* register_node_by_name, the endpoints made by Connection::from_names and
\* the hash recorded by record_node_by_name are one function of the name,
\* whatever the ports: a registered node has the id hash_node_name(name),
\* nodes of different names have different ids, a connection made by name
\* ends at the ids of the nodes registered under the names, and a trace
\* recorded by name holds the ids of the nodes registered under the names.
C28_SharedIdentity ==
    /\ \A node \in linker.nodes : node.id = HashNodeName(node.name)
    /\ \A n1, n2 \in linker.nodes : n1.name # n2.name => n1.id # n2.id
    /\ (link_result.op = "connect" /\ "names" \in DOMAIN link_result)
          => /\ IdsOf(link_result.names[1]) \subseteq {link_result.connection.from_node}
             /\ IdsOf(link_result.names[2]) \subseteq {link_result.connection.to_node}
             /\ link_result.connection.from_node = HashNodeName(link_result.names[1])
             /\ link_result.connection.to_node = HashNodeName(link_result.names[2])
    /\ builder # Consumed
          => \A k \in DOMAIN builder.node_names :
                /\ builder.execution_trace[k] = HashNodeName(builder.node_names[k])
                /\ IdsOf(builder.node_names[k]) \subseteq {builder.execution_trace[k]}

\* a built node a connected by name to a node b registered by name, and
\* both recorded by name
C28_Witness ==
    /\ linker.nodes = {BuiltScalarNode(NodeA),
                       NodeInfo(Sha256(NodeB), NodeB, WideInputs, WideOutputs)}
    /\ link_result.op = "connect"
    /\ link_result.value = "Ok(())"
    /\ link_result.names = <<NodeA, NodeB>>
    /\ builder # Consumed
    /\ builder.node_names = <<NodeA, NodeB>>
    /\ builder.execution_trace = <<BuiltScalarNode(NodeA).id, Sha256(NodeB)>>

(* ---------------------- claim C29 ------------------------------------- *)

\* an Order encoded with every string field closed by a null byte, every
\* numeric field at its fixed width and a presence flag before each
\* optional field
TerminatedOrderBytes(o) ==
    o.symbol \o <<0>>
        \o <<SideByte(o.side)>>
        \o <<TypeByte(o.order_type)>>
        \o ToLeBytes(o.quantity)
        \o OptionBytes(o.price)
        \o OptionBytes(o.stop_price)
        \o o.time_in_force \o <<0>>
        \o o.client_order_id \o <<0>>

\* C29: the message signed and verified is the canonical encoding of the
\* Order, then strategy_hash, input_hash, each trace entry in trace order,
\* the timestamp as 8 little-endian bytes and agent_pubkey; in the
\* encoding of the Order symbol, time_in_force and client_order_id each end
\* with a null byte, numeric fields have fixed width and price and
\* stop_price each follow a presence flag.
C29_MessageLayout ==
    changed = Untouched
        => \A i \in DOMAIN pcos :
              LET layout == TerminatedOrderBytes(pcos[i].order)
                                \o pcos[i].strategy_hash
                                \o pcos[i].input_hash
                                \o Concat(pcos[i].execution_trace)
                                \o ToLeBytes(pcos[i].timestamp)
                                \o pcos[i].agent_pubkey
              IN  /\ pcos[i].signature.msg = layout
                  /\ BuildMessage(pcos[i]) = layout

(* -------- PCOs as JSON (SpecJson) ------------------------------------- *)
\* A JSON text is taken as the document it denotes: an object of the
\* fields of the PCO, an f64 written either as a number, which reads back
\* as the same f64, or as null.

\* f64::is_finite on the digits of the bit pattern: the exponent is not
\* all ones
IsFinite(x) == (x[1] % 128) * 16 + (x[2] \div 16) # 2047

JsonNull == [json |-> "null"]

\* serde_json writes a finite f64 as a number, NaN and the infinities as
\* null
F64ToJson(x) == IF IsFinite(x) THEN [json |-> "number", f64 |-> x] ELSE JsonNull

\* Option<f64>: None is null, Some(x) is x
OptionToJson(opt) == IF opt = None THEN JsonNull ELSE F64ToJson(opt[1])

\* the derived Serialize of Order
OrderToJson(o) ==
    [symbol |-> o.symbol, side |-> o.side, order_type |-> o.order_type,
     quantity |-> F64ToJson(o.quantity), price |-> OptionToJson(o.price),
     stop_price |-> OptionToJson(o.stop_price), time_in_force |-> o.time_in_force,
     client_order_id |-> o.client_order_id]

\* ProofCarryingOrder::to_json
ToJson(p) == Ok([p EXCEPT !.order = OrderToJson(p.order)])

\* an f64 is read from a number only
F64FromJson(v) == IF v.json = "number" THEN Ok(v.f64) ELSE Err("SerializationError")

\* an Option<f64> is None when read from null
OptionFromJson(v) == IF v.json = "null" THEN None ELSE Some(v.f64)

\* ProofCarryingOrder::from_json
FromJson(doc) ==
    IF ~F64FromJson(doc.order.quantity).ok THEN Err("SerializationError")
    ELSE Ok([doc EXCEPT !.order =
                [symbol |-> doc.order.symbol, side |-> doc.order.side,
                 order_type |-> doc.order.order_type,
                 quantity |-> F64FromJson(doc.order.quantity).value,
                 price |-> OptionFromJson(doc.order.price),
                 stop_price |-> OptionFromJson(doc.order.stop_price),
                 time_in_force |-> doc.order.time_in_force,
                 client_order_id |-> doc.order.client_order_id]])

\* pco.to_json() on the first PCO
PcoToJson ==
    /\ Len(pcos) >= 1
    /\ result' = [op |-> "to_json", json |-> ToJson(pcos[1])]
    /\ UNCHANGED <<signer_now, verifier_now, overflow_checks, builder, batch,
                   pcos, origin, changed, verifier,
                   calls, auxVars, graphVars>>

\* ProofCarryingOrder::from_json on the text to_json returned
PcoFromJson ==
    /\ result.op = "to_json"
    /\ result.json.ok
    /\ result' = [op |-> "from_json", decoded |-> FromJson(result.json.value)]
    /\ UNCHANGED <<signer_now, verifier_now, overflow_checks, builder, batch,
                   pcos, origin, changed, verifier,
                   calls, auxVars, graphVars>>

\* f64::NAN and f64::INFINITY
F64NaN == <<127, 248, 0, 0, 0, 0, 0, 0>>
F64Infinity == <<127, 240, 0, 0, 0, 0, 0, 0>>

\* orders with a quantity or a price that is not a finite number
JsonOrders ==
    Orders \cup {[LimitOrder(StrX) EXCEPT !.quantity = F64NaN],
                 [LimitOrder(StrX) EXCEPT !.price = Some(F64Infinity)]}

JsonNext ==
    \/ \E order \in JsonOrders, strategy_hash \in {HashOne, HashAscii},
          trace \in SeqsUpTo({HashOne}, MaxTrace) :
          NothingBuilt /\ PcoNew(order, strategy_hash, HashOne, trace, batch.signing_key)
    \/ PcoToJson
    \/ PcoFromJson

SpecJson == SignInit /\ [][JsonNext]_vars

(* ---------------------- claim C30 ------------------------------------- *)

\* C30: for every PCO p whose signature verifies, from_json(to_json(p))
\* succeeds and yields a PCO with the order, strategy_hash, input_hash,
\* execution_trace, timestamp, agent_pubkey and signature of p, which
\* verify_signature answers as it answers p.
C30_JsonRoundTrip ==
    (result.op = "from_json" /\ VerifySignature(pcos[1]) = "Ok(true)")
        => /\ result.decoded.ok
           /\ result.decoded.value = pcos[1]
           /\ VerifySignature(result.decoded.value) = VerifySignature(pcos[1])

(* -------- the audit log (SpecAudit) ----------------------------------- *)
\* PCOs of two strategies and two agents are signed, the first is verified
\* and verifications are recorded and looked up in the audit log.

\* Signature::to_bytes: 64 bytes fixed by the key and the message, moved
\* by what was altered since
SignatureBytes(sig) ==
    LET digest == Sha256(<<sig.signer>> \o sig.msg)
    IN  [i \in 1..SigLen |-> (digest[((i - 1) % HashLen) + 1] + sig.delta[i]) % 256]

\* ProofCarryingOrder::hash
PcoHash(p) ==
    Sha256(OrderToBytes(p.order)
              \o p.strategy_hash
              \o p.input_hash
              \o Concat(p.execution_trace)
              \o ToLeBytes(p.timestamp)
              \o p.agent_pubkey
              \o SignatureBytes(p.signature))

\* AuditEntry
AuditEntry(pco_hash, strategy_hash, agent_pubkey, verified_at, verification) ==
    [pco_hash |-> pco_hash, strategy_hash |-> strategy_hash,
     agent_pubkey |-> agent_pubkey, verified_at |-> verified_at,
     result |-> verification]

\* record that puts the new entry in front
AuditLogRecordInFront(log, pco, verification, now) ==
    [log EXCEPT !.entries =
        <<AuditEntry(PcoHash(pco), pco.strategy_hash, pco.agent_pubkey, now,
                     verification)>> \o @]

\* AuditLog::record, `now` being the clock it reads
AuditLogRecord(log, pco, verification, now) ==
    [log EXCEPT !.entries =
        Append(@, AuditEntry(PcoHash(pco), pco.strategy_hash, pco.agent_pubkey, now,
                             verification))]

\* AuditLog::entries_for_strategy
AuditLogEntriesForStrategy(log, strategy_hash) ==
    SelectSeq(log.entries, LAMBDA entry : entry.strategy_hash = strategy_hash)

\* AuditLog::entries_for_agent
AuditLogEntriesForAgent(log, agent_pubkey) ==
    SelectSeq(log.entries, LAMBDA entry : entry.agent_pubkey = agent_pubkey)

\* audit_log.record(&pcos[i], result) with the VerificationResult that
\* verify returned last
AuditRecord(i) ==
    /\ i \in DOMAIN pcos
    /\ result.op = "verify"
    /\ result.value.outcome = "returned"
    /\ audit_log' = AuditLogRecord(audit_log, pcos[i], result.value.value, verifier_now)
    /\ UNCHANGED <<signer_now, verifier_now, overflow_checks, builder, batch,
                   pcos, origin, changed, verifier, result,
                   calls, ws, graphVars>>

\* AuditLog::entries_for_strategy
EntriesForStrategy(strategy_hash) ==
    /\ result' = [op |-> "entries_for_strategy", key |-> strategy_hash,
                  entries |-> AuditLogEntriesForStrategy(audit_log, strategy_hash)]
    /\ UNCHANGED <<signer_now, verifier_now, overflow_checks, builder, batch,
                   pcos, origin, changed, verifier,
                   calls, auxVars, graphVars>>

\* AuditLog::entries_for_agent
EntriesForAgent(agent_pubkey) ==
    /\ result' = [op |-> "entries_for_agent", key |-> agent_pubkey,
                  entries |-> AuditLogEntriesForAgent(audit_log, agent_pubkey)]
    /\ UNCHANGED <<signer_now, verifier_now, overflow_checks, builder, batch,
                   pcos, origin, changed, verifier,
                   calls, auxVars, graphVars>>

MaxEntries == 2
MaxAudited == 2

AuditNext ==
    \/ \E strategy_hash \in {HashOne, HashAscii}, sk \in SigningKeys :
          /\ Len(pcos) < MaxAudited
          /\ PcoNew(LimitOrder(StrX), strategy_hash, HashOne, <<HashOne>>, sk)
    \/ verifier_now = Epoch /\ TickVerifier(1)
    \/ Verify
    \/ \E i \in 1..MaxAudited :
          /\ Len(audit_log.entries) < MaxEntries
          /\ AuditRecord(i)
    \/ \E strategy_hash \in {HashOne, HashAscii} : EntriesForStrategy(strategy_hash)
    \/ \E sk \in SigningKeys : EntriesForAgent(VerifyingKeyBytes(sk))

SpecAudit == LinkInit /\ [][AuditNext]_vars

(* ---------------------- claim C31 ------------------------------------- *)

\* the entries whose strategy hash (field "strategy") or agent key is key,
\* in the order of the log
RECURSIVE Matching(_, _, _)
Matching(entries, field, key) ==
    IF entries = <<>> THEN <<>>
    ELSE LET rest == Matching(SubSeq(entries, 1, Len(entries) - 1), field, key)
             last == entries[Len(entries)]
         IN  IF (IF field = "strategy" THEN last.strategy_hash ELSE last.agent_pubkey) = key
             THEN Append(rest, last) ELSE rest

\* C31: a record call appends exactly one entry at the end, with the hash,
\* the strategy_hash and the agent_pubkey of the recorded PCO and the
\* result it was given; no step removes, reorders or changes an entry, so
\* the log of a state is a prefix of the log of the next; and
\* entries_for_strategy and entries_for_agent return the entries with the
\* given strategy hash or agent key, in insertion order.
C31_AuditLogAppendOnly ==
    /\ [][ /\ Len(audit_log'.entries) >= Len(audit_log.entries)
           /\ SubSeq(audit_log'.entries, 1, Len(audit_log.entries)) = audit_log.entries
           /\ audit_log' # audit_log
                => /\ Len(audit_log'.entries) = Len(audit_log.entries) + 1
                   /\ \E i \in DOMAIN pcos :
                         LET entry == audit_log'.entries[Len(audit_log'.entries)]
                         IN  /\ entry.pco_hash = PcoHash(pcos[i])
                             /\ entry.strategy_hash = pcos[i].strategy_hash
                             /\ entry.agent_pubkey = pcos[i].agent_pubkey
                             /\ entry.result = result.value.value ]_vars
    /\ [](result.op = "entries_for_strategy"
            => result.entries = Matching(audit_log.entries, "strategy", result.key))
    /\ [](result.op = "entries_for_agent"
            => result.entries = Matching(audit_log.entries, "agent", result.key))

\* two verifications recorded for two strategies, one of them looked up
C31_Witness ==
    /\ Len(audit_log.entries) = 2
    /\ audit_log.entries[1].strategy_hash = HashAscii
    /\ audit_log.entries[2].strategy_hash = HashOne
    /\ audit_log.entries[1].pco_hash # audit_log.entries[2].pco_hash
    /\ result.op = "entries_for_strategy"
    /\ result.entries = <<audit_log.entries[2]>>

(* ----------------------- skew reporting (SpecVerify) ------------------- *)

\* the distance in seconds between the PCO's timestamp and the clock
SkewSeconds(p, now) ==
    IF GtU64(p.timestamp, now) THEN SubU64(p.timestamp, now)
    ELSE SubU64(now, p.timestamp)

TimestampRejected ==
    /\ result.op = "verify_timestamp"
    /\ result.value.outcome = "returned"
    /\ result.value.value.status = "Err(TimestampError)"

\* C32 (as claimed): whenever verify_timestamp fails, for a timestamp in
\* the future as for one that is too old, the error it returns carries the
\* exact number of seconds between the PCO's timestamp and the verifier's
\* clock.
C32_ExactSkew ==
    TimestampRejected
        => /\ "seconds_ago" \in DOMAIN result.value.value
           /\ result.value.value.seconds_ago = SkewSeconds(pcos[1], verifier_now)

(* ---------------------- fan-out (SpecLink) ----------------------------- *)

\* the connections of l that leave the output port
ConnectionsOutOf(l, node, port) ==
    {i \in DOMAIN l.connections :
        l.connections[i].from_node = node /\ l.connections[i].from_port = port}

\* the shapes of the two ports of the connection go together
ShapesCompatible(l, c) ==
    \E from_node \in NodesGet(l, c.from_node), to_node \in NodesGet(l, c.to_node) :
        LET from_shape == from_node.outputs[c.from_port + 1].shape
            to_shape == to_node.inputs[c.to_port + 1].shape
        IN  from_shape = <<>> \/ to_shape = <<>> \/ from_shape = to_shape

\* C33: a connect from an output port of a registered node into an input
\* without a connection and of a compatible shape succeeds and is appended,
\* however many connections leave that output port already.
C33_FanOutAllowed ==
    [][ (ConnectToFreeInput /\ ShapesCompatible(linker, link_result'.connection))
            => /\ link_result'.value = "Ok(())"
               /\ linker'.connections
                    = Append(linker.connections, link_result'.connection) ]_vars

\* an accepted second connection out of one output port
C33_Witness ==
    /\ link_result.op = "connect"
    /\ link_result.value = "Ok(())"
    /\ Len(linker.connections) = 2
    /\ linker.connections[2] = link_result.connection
    /\ ConnectionsOutOf(linker, link_result.connection.from_node,
                        link_result.connection.from_port) = {1, 2}
    /\ linker.connections[1].to_node # linker.connections[2].to_node

(* ---------------------- the index of connected inputs ------------------ *)

\* the entries of connected_inputs stored under the key (node, port)
IndexEntries(l, node, port) == {entry \in l.connected_inputs : entry.key = <<node, port>>}

\* every entry of the index has a connection into its key
IndexedIsConnected(l) ==
    \A entry \in l.connected_inputs :
        ConnectionsInto(l, entry.key[1], entry.key[2]) # {}

\* every connection has its entry in the index, with its source node
ConnectedIsIndexed(l) ==
    \A i \in DOMAIN l.connections :
        IndexEntries(l, l.connections[i].to_node, l.connections[i].to_port)
          = {[key |-> <<l.connections[i].to_node, l.connections[i].to_port>>,
              source |-> l.connections[i].from_node]}

\* C38: connected_inputs has an entry for (n, p) exactly when the
\* connection list holds a connection into (n, p), and the value of the
\* entry is the from_node of that connection; a connect that returns an
\* error changes neither the index nor the connection list.
C38_IndexConsistency ==
    /\ [](IndexedIsConnected(linker) /\ ConnectedIsIndexed(linker))
    /\ [][ (link_result'.op = "connect" /\ link_result'.value # "Ok(())")
              => /\ linker'.connected_inputs = linker.connected_inputs
                 /\ linker'.connections = linker.connections ]_vars

\* an input indexed under the node that feeds it, and a connect into
\* another input refused for its shape
C38_Witness ==
    /\ Len(linker.connections) = 1
    /\ linker.connections[1].from_node # linker.connections[1].to_node
    /\ linker.connected_inputs
         = {[key |-> <<linker.connections[1].to_node, linker.connections[1].to_port>>,
             source |-> linker.connections[1].from_node]}
    /\ link_result.op = "connect"
    /\ link_result.value = "Err(ShapeMismatch)"

(* ---------------------- referential integrity -------------------------- *)

\* C35 (as claimed): every Connection of the list names a registered
\* from_node and to_node, its from_port is an index into the outputs the
\* source node has now, its to_port an index into the inputs the target
\* node has now, and the shapes those two ports have now are compatible.
C35_LinkerReferentialIntegrity ==
    \A i \in DOMAIN linker.connections :
        /\ EndsExist(linker, linker.connections[i])
        /\ ShapesCompatible(linker, linker.connections[i])

\* importing, importing again, connecting and composing
IntegrityNext ==
    \/ ComposeNext
    \/ Compose(FALSE)

SpecIntegrity == LinkInit /\ [][IntegrityNext]_vars

\* among the metadata graphs, the connection finds both its subgraphs, its
\* output among the outputs of the first and its input among the inputs of
\* the second
WiredToDeclaredPorts(graphs, connection) ==
    /\ \E from_meta \in graphs :
          /\ from_meta.hash = connection.from_graph
          /\ connection.from_output \in Range(from_meta.outputs)
    /\ \E to_meta \in graphs :
          /\ to_meta.hash = connection.to_graph
          /\ connection.to_input \in Range(to_meta.inputs)

\* C36 (as claimed): every SubgraphConnection of the composer names an
\* imported from_graph and to_graph, an output that the metadata of
\* from_graph declares now and an input that the metadata of to_graph
\* declares now; the same holds for the connections of every ComposedGraph
\* that compose returns.
C36_ComposerReferentialIntegrity ==
    /\ \A i \in DOMAIN composer.connections :
          WiredToDeclaredPorts(composer.graphs, composer.connections[i])
    /\ (compose_result.op = "compose" /\ compose_result.graph.ok)
          => \A i \in DOMAIN compose_result.graph.value.connections :
                WiredToDeclaredPorts(Range(compose_result.graph.value.subgraphs),
                                     compose_result.graph.value.connections[i])

(* ---------------------- linker queries (SpecQuery) ---------------------- *)
\* The linker of SpecLink, asked about its connections after every step.

\* the ids asked about: the two nodes that get registered and one that
\* never is
QueriedIds == {HashNodeName(NodeA), HashNodeName(NodeB), HashNodeName(NodeC)}

QueryNext ==
    \/ LinkNext
    \/ \E node_id \in QueriedIds, port \in PortIndices : SourceOf(node_id, port)
    \/ \E node_id \in QueriedIds : ConnectionsTo(node_id)
    \/ \E node_id \in QueriedIds : ConnectionsFrom(node_id)
    \/ \E node_id \in QueriedIds : Dependents(node_id)
    \/ \E node_id \in QueriedIds : Dependencies(node_id)

SpecQuery == LinkInit /\ [][QueryNext]_vars

\* the connections of the list, in its order, whose end `side` is the node
RECURSIVE ConnectionsAt(_, _, _)
ConnectionsAt(connections, side, node_id) ==
    IF connections = <<>> THEN <<>>
    ELSE LET c == Head(connections)
             rest == ConnectionsAt(Tail(connections), side, node_id)
         IN  IF (IF side = "to" THEN c.to_node ELSE c.from_node) = node_id
             THEN <<c>> \o rest ELSE rest

\* source_of answers Some((f, fp)) exactly for the connections (f, fp, n, p)
\* of the list, and None when there is none
SourceOfIsProjection ==
    link_result.op = "source_of"
        => LET into == ConnectionsInto(linker, link_result.key[1], link_result.key[2])
           IN  /\ \A i \in into :
                     link_result.source = Some(<<linker.connections[i].from_node,
                                                 linker.connections[i].from_port>>)
               /\ into = {} => link_result.source = None

\* connections_to and connections_from answer the connections of that end
ConnectionListsAreProjections ==
    /\ link_result.op = "connections_to"
          => link_result.list = ConnectionsAt(linker.connections, "to", link_result.id)
    /\ link_result.op = "connections_from"
          => link_result.list = ConnectionsAt(linker.connections, "from", link_result.id)

\* b is among dependents(a) exactly when a is among dependencies(b)
DependentsMirrorDependencies ==
    \A a, b \in QueriedIds :
        b \in Range(LinkerDependents(linker, a)) <=> a \in Range(LinkerDependencies(linker, b))

\* the ids dependents and dependencies answer are the other ends of the
\* connections of the node
DependencyAnswersAreProjections ==
    /\ link_result.op = "dependents"
          => Range(link_result.ids)
               = {linker.connections[i].to_node :
                     i \in {j \in DOMAIN linker.connections :
                               linker.connections[j].from_node = link_result.id}}
    /\ link_result.op = "dependencies"
          => Range(link_result.ids)
               = {linker.connections[i].from_node :
                     i \in {j \in DOMAIN linker.connections :
                               linker.connections[j].to_node = link_result.id}}

QueryOps == {"source_of", "connections_to", "connections_from", "dependents", "dependencies"}

\* C34: source_of(n, p) is Some((f, fp)) exactly when the list holds a
\* connection (f, fp, n, p) and None otherwise; connections_to(n) and
\* connections_from(n) are the connections with to_node = n and from_node
\* = n in the order of the list; b is in dependents(a) exactly when a is in
\* dependencies(b); no query changes the linker.
C34_QueriesAreProjections ==
    /\ [](/\ SourceOfIsProjection
          /\ ConnectionListsAreProjections
          /\ DependentsMirrorDependencies
          /\ DependencyAnswersAreProjections)
    /\ [][link_result'.op \in QueryOps => linker' = linker]_vars

\* dependencies asked of a node fed by another node, two connections made
C34_Witness ==
    /\ link_result.op = "dependencies"
    /\ Len(linker.connections) = 2
    /\ Len(link_result.ids) = 1
    /\ link_result.ids[1] # link_result.id
    /\ LinkerSourceOf(linker, link_result.id, linker.connections[2].to_port)
         = Some(<<link_result.ids[1], linker.connections[2].from_port>>)

(* ---------------------- the WebSocket task (SpecSocket) ---------------- *)
\* The task that spawn_websocket starts, seen at its await points, and the
\* holder of the receiving end of the incoming channel.  The channel is a
\* bounded queue of which the number of waiting messages is kept; a send
\* waits while the queue is full and fails once the receiver is dropped.

ChannelCapacity == 100
DefaultMaxReconnectAttempts == 10
MaxReconnects == 2

\* the task at line 63, about to call connect_async for the first time
WsTask(max_reconnect_attempts) ==
    [pc |-> "connect", reconnect_attempts |-> 0,
     max_reconnect_attempts |-> max_reconnect_attempts,
     receiver |-> "held", incoming |-> 0,
     attempts_made |-> 0, connected_once |-> FALSE]

\* incoming_tx.send(..).await can return
CanSend(w) == w.receiver = "dropped" \/ w.incoming < ChannelCapacity

\* what incoming_tx.send(..).await leaves behind when it returns
Sent(w) ==
    IF w.receiver = "dropped" THEN w ELSE [w EXCEPT !.incoming = @ + 1]

\* the reconnection logic with > in the place of >=
AfterAttemptOneMore(w) ==
    IF w.reconnect_attempts + 1 > w.max_reconnect_attempts
    THEN [w EXCEPT !.reconnect_attempts = @ + 1, !.pc = "stopped"]
    ELSE [w EXCEPT !.reconnect_attempts = @ + 1, !.pc = "sleep"]

\* the reconnection logic, lines 150 to 158
AfterAttempt(w) ==
    IF w.reconnect_attempts + 1 >= w.max_reconnect_attempts
    THEN [w EXCEPT !.reconnect_attempts = @ + 1, !.pc = "stopped"]
    ELSE [w EXCEPT !.reconnect_attempts = @ + 1, !.pc = "sleep"]

SocketIdle ==
    UNCHANGED <<signer_now, verifier_now, overflow_checks, builder, batch, pcos,
                origin, changed, verifier, result, calls, audit_log, graphVars>>

\* connect_async returns: Ok leads into the session with the counter at 0,
\* Err to the report of the failure
ConnectResolves(ok) ==
    /\ ws.pc = "connect"
    /\ ws' = IF ok
             THEN [ws EXCEPT !.pc = "session", !.reconnect_attempts = 0,
                             !.connected_once = TRUE, !.attempts_made = 0]
             ELSE [ws EXCEPT !.pc = "report",
                             !.attempts_made = IF ws.connected_once THEN 0 ELSE @ + 1]
    /\ SocketIdle

\* the send of a failure returns, its result is dropped, and the
\* reconnection logic runs
ReportCompletes ==
    /\ ws.pc = "report"
    /\ CanSend(ws)
    /\ ws' = AfterAttempt(Sent(ws))
    /\ SocketIdle

\* the select! of the session: a text message to forward, an error of the
\* stream to report, or the loss of the connection (a Close, a failed write,
\* the end of the streams)
SessionEvent(event) ==
    /\ ws.pc = "session"
    /\ ws' = CASE event = "text" -> [ws EXCEPT !.pc = "forward"]
               [] event = "error" -> [ws EXCEPT !.pc = "report"]
               [] event = "lost" -> AfterAttempt(ws)
    /\ SocketIdle

\* the send of a text message returns: the task returns when the receiver
\* is gone
ForwardCompletes ==
    /\ ws.pc = "forward"
    /\ CanSend(ws)
    /\ ws' = IF ws.receiver = "dropped" THEN [ws EXCEPT !.pc = "returned"]
             ELSE [Sent(ws) EXCEPT !.pc = "session"]
    /\ SocketIdle

\* tokio::time::sleep(config.reconnect_delay) returns
SleepCompletes ==
    /\ ws.pc = "sleep"
    /\ ws' = [ws EXCEPT !.pc = "connect"]
    /\ SocketIdle

\* the holder of the handle takes a message from the receiver
Receive ==
    /\ ws.receiver = "held"
    /\ ws.incoming > 0
    /\ ws' = [ws EXCEPT !.incoming = @ - 1]
    /\ SocketIdle

\* the holder of the handle drops it
DropReceiver ==
    /\ ws.receiver = "held"
    /\ ws' = [ws EXCEPT !.receiver = "dropped", !.incoming = 0]
    /\ SocketIdle

\* the values of max_reconnect_attempts: the small ones, the default and
\* one more than the incoming channel holds
ReconnectLimits ==
    (0..MaxReconnects) \cup {DefaultMaxReconnectAttempts, ChannelCapacity + 1}

SocketInit ==
    /\ signer_now = Epoch
    /\ verifier_now = Epoch
    /\ overflow_checks = FALSE
    /\ builder = PcoBuilderNew(1)
    /\ batch = BatchPcoBuilderNew(1, HashOne)
    /\ pcos = <<>>
    /\ origin = <<>>
    /\ changed = Untouched
    /\ verifier = PcoVerifierNew
    /\ result = NoResult
    /\ calls = NoCalls
    /\ audit_log = AuditLogNew
    /\ GraphsIdle
    /\ ws \in {WsTask(max_reconnect_attempts) : max_reconnect_attempts \in ReconnectLimits}

\* the steps the task takes by itself
TaskProgress ==
    \/ \E ok \in BOOLEAN : ConnectResolves(ok)
    \/ ReportCompletes
    \/ ForwardCompletes
    \/ SleepCompletes

SocketNext ==
    \/ TaskProgress
    \/ \E event \in {"text", "error", "lost"} : SessionEvent(event)
    \/ Receive
    \/ DropReceiver

SpecSocket == SocketInit /\ [][SocketNext]_vars

\* the runtime lets a task that can go on go on; nothing makes the server
\* speak or the holder of the handle receive
SpecSocketFair == SpecSocket /\ WF_vars(TaskProgress)

(* ---------------------- claim C37 -------------------------------------- *)

\* the counter is set to 0 by every successful connect, is one more after
\* every failure reported and every connection lost, and changes in no
\* other way
CounterResetAndIncrement ==
    [][ /\ (ws.pc = "connect" /\ ws'.pc = "session") => ws'.reconnect_attempts = 0
        /\ ((ws.pc = "report" /\ ws'.pc # "report")
              \/ (ws.pc = "session" /\ ws'.pc \in {"sleep", "stopped"}))
             => ws'.reconnect_attempts = ws.reconnect_attempts + 1
        /\ ws'.reconnect_attempts # ws.reconnect_attempts
             => \/ (ws.pc = "connect" /\ ws'.pc = "session")
                \/ ws.pc = "report"
                \/ (ws.pc = "session" /\ ws'.pc \in {"sleep", "stopped"}) ]_vars

\* no attempt to connect has succeeded
AllAttemptsFailed == ~ws.connected_once

\* while every attempt fails no more than max_reconnect_attempts are made,
\* and a task that has stopped has made that many
ExactlyMaxAttempts ==
    [](AllAttemptsFailed /\ ws.max_reconnect_attempts >= 1
         => /\ ws.attempts_made <= ws.max_reconnect_attempts
            /\ ws.pc = "stopped" => ws.attempts_made = ws.max_reconnect_attempts)

\* a failure whose report returns while the receiver is held is in the
\* incoming channel
FailuresReported ==
    [][(ws.pc = "report" /\ ws'.pc # "report" /\ ws.receiver = "held")
          => ws'.incoming = ws.incoming + 1]_vars

\* a task that has stopped stays stopped
StoppedForGood == [][ws.pc = "stopped" => ws'.pc = "stopped"]_vars

\* the task waits to report a failure to a full channel
ReportBlocked ==
    ws.pc = "report" /\ ws.receiver = "held" /\ ws.incoming = ChannelCapacity

=============================================================================
